---- MODULE Spec2Model ----
(***************************************************************************)
(* A model of the thermal ESC/POS parser and renderer core:                *)
(*   - the byte-stream parser driving the per-command handlers             *)
(*     (barcode GS 'k', raster bit image GS 'v' '0'),                      *)
(*   - the printer Context (reset, coordinates, page mode),                *)
(*   - the pure helpers (validate_data_length,                             *)
(*     calculate_directional_rotation).                                    *)
(* Each part has its own specification over the shared variables; the      *)
(* variables a specification does not use keep their initial value.        *)
(***************************************************************************)
EXTENDS Integers, Sequences, FiniteSets, TLC

VARIABLES
    \* ---- parser (SpecParser) ----
    fixture,    \* which family of input streams / command set is being run
    phase,      \* "start" | "parsing" | "done"
    buffer,     \* ambiguity buffer: bytes of a prefix not yet decided
    cur,        \* command instance being accumulated, or NoCmd
    curBytes,   \* input bytes consumed so far by cur (prefix and payload)
    emit,       \* command instances handed downstream by the latest step
    pos,        \* number of bytes of a scripted stream fed so far
    \* ---- context (SpecContext) ----
    ctx,        \* the Context: text, barcode, code2d, graphics, page_mode, default
    panic,      \* "none", or the abort the last operation ran into
    lastOp,     \* name of the latest context operation
    resets,     \* how many Initialize commands ran in a row just now (0, 1, 2+)
    rotation,   \* rotation returned by the latest apply_logical_area
    steps,      \* number of operations applied so far
    trail,      \* the page-mode commands applied so far, in order (SpecPage)
    swaps,      \* parity of the page-area w/h exchanges so far: 0 or 1 (SpecPage)
    \* ---- pure helpers (SpecPure) ----
    fn,         \* which helper is applied
    arg,        \* its input
    res,        \* its result, or NoResult before it is applied
    \* ---- renderer (SpecRender) ----
    span_buffer, \* Renderer::span_buffer: the text spans collected, not yet laid out
    lines,      \* the render_text calls of the latest command, in order
    lastKind,   \* kind of the latest command processed, or "none"
    errors,     \* Renderer::error_buffer: the kinds of the errors logged, in order
    gfx,        \* what get_graphics gave for the latest command: "none", "Error", "Barcode"
    graphics_calls, \* number of render_graphics calls of the latest command
    adapter_calls, \* the calls the latest command made on the adapter, in order
    output_buffer \* Renderer::output_buffer: the outputs of end_render not yet returned

parserVars == <<fixture, phase, buffer, cur, curBytes, emit, pos>>
ctxVars    == <<ctx, panic, lastOp, resets, rotation, steps, trail, swaps>>
pureVars   == <<fn, arg, res>>
renderVars == <<span_buffer, lines, lastKind, errors, gfx, graphics_calls,
               adapter_calls, output_buffer>>
vars       == <<fixture, phase, buffer, cur, curBytes, emit, pos,
                ctx, panic, lastOp, resets, rotation, steps, trail, swaps,
                fn, arg, res, span_buffer, lines, lastKind, errors, gfx,
                graphics_calls, adapter_calls, output_buffer>>

----------------------------------------------------------------------------
(* Bounds of the model *)

\* Longest payload (command.data) a handler is driven to.
MaxPayload == 3
\* Longest pixel payload the raster handler is driven to after its header.
MaxRaster == 2
\* Number of context operations in one run.
MaxSteps == 4
\* Largest coordinate argument handed to a context operation.
MaxCoord == 2
\* Largest barcode payload length handed to validate_data_length.
MaxLen == 258
\* Largest number of direction changes in one sequence of print directions.
MaxWalk == 4
\* Largest image width in a graphics header.
MaxWidth == 9
\* Largest image height in a graphics header.
MaxHeight == 2
\* Longest pixel data after a graphics header.
MaxPixelBytes == 4
\* Longest Code128 payload handed to get_graphics.
MaxCodeLen == 4
\* Largest number of modules of a barcode or a 2D code handed to the renderer.
MaxModules == 4
\* Longest single word handed to process_text.
MaxWordLen == 24
\* Largest number of columns of column data handed to column_to_raster.
MaxColumns == 3
\* Largest height in dots of column data handed to column_to_raster.
MaxColumnHeight == 9
\* Number of define-raster subcommands in one run.
MaxDefines == 3
\* Number of byte streams one Renderer renders in a run.
MaxRenders == 3

----------------------------------------------------------------------------
(* Bytes *)

NUL == 0
GS == 29
Chr_0 == 48
Chr_k == 107
Chr_v == 118
ESC == 27
Chr_star == 42

\* Last element of a sequence, or dflt when empty (Vec::last().unwrap_or).
LastOr(s, dflt) == IF Len(s) = 0 THEN dflt ELSE s[Len(s)]

\* A sequence without its last element (Vec::pop).
Front(s) == SubSeq(s, 1, Len(s) - 1)

IsPrefixOf(p, s) == Len(p) <= Len(s) /\ SubSeq(s, 1, Len(p)) = p

----------------------------------------------------------------------------
(* Barcode handler: thermal_parser/src/commands/barcode.rs *)

\* barcode::new: the fresh handler state.
NewBarcodeHandler ==
    [kind |-> "Unknown", kind_id |-> 0, encoding |-> "Unknown", capacity |-> 0,
     has_capacity |-> FALSE, accept_data |-> FALSE, raw_params |-> <<>>]

\* The selector -> symbology match of BarcodeHandler::push.
BarcodeKindOf(b) ==
    CASE b \in {0, 65} -> "UpcA"
      [] b \in {1, 66} -> "UpcE"
      [] b \in {2, 67} -> "Ean13"
      [] b \in {3, 68} -> "Ean8"
      [] b \in {4, 69} -> "Code39"
      [] b \in {5, 70} -> "Itf"
      [] b \in {6, 71} -> "Nw7Codabar"
      [] b = 72 -> "Code93"
      [] b = 73 -> "Code128"
      [] b = 80 -> "Gs1128"
      [] b = 81 -> "Gs1DatabarOmni"
      [] b = 82 -> "Gs1DatabarTruncated"
      [] b = 83 -> "Gs1DatabarLimited"
      [] b = 84 -> "Gs1DatabarExpanded"
      [] b = 85 -> "Code128Auto"
      [] OTHER -> "Unknown"

\* A mutant of BarcodeEncodingOf: every selector from 65 up is explicit-size.
BarcodeEncodingOfUnbounded(b) ==
    IF b <= 6 THEN "NulTerminated"
    ELSE IF b >= 65 THEN "ExplicitSize"
    ELSE "Unknown"

\* The selector -> encoding function choice of BarcodeHandler::push.
BarcodeEncodingOf(b) ==
    IF b <= 6 THEN "NulTerminated"
    ELSE IF b >= 65 /\ b <= 79 THEN "ExplicitSize"
    ELSE "Unknown"

\* A mutant of the explicit-size branch: one byte too many is accepted.
BarcodePushExplicitOffByOne(h, data, byte) ==
    IF ~h.has_capacity
    THEN [acc |-> TRUE, data |-> data,
          h |-> [h EXCEPT !.raw_params = Append(@, byte), !.capacity = byte,
                          !.has_capacity = TRUE]]
    ELSE IF Len(data) <= h.capacity
    THEN [acc |-> TRUE, data |-> Append(data, byte), h |-> h]
    ELSE [acc |-> FALSE, data |-> data, h |-> h]

\* BarcodeHandler::push, EncodingFunction::ExplicitSize branch.
BarcodePushExplicit(h, data, byte) ==
    IF ~h.has_capacity
    THEN [acc |-> TRUE, data |-> data,
          h |-> [h EXCEPT !.raw_params = Append(@, byte), !.capacity = byte,
                          !.has_capacity = TRUE]]
    ELSE IF Len(data) < h.capacity
    THEN [acc |-> TRUE, data |-> Append(data, byte), h |-> h]
    ELSE [acc |-> FALSE, data |-> data, h |-> h]

\* BarcodeHandler::push, EncodingFunction::NulTerminated branch: the NUL is
\* pushed like any byte and popped by the push that follows it.
BarcodePushNul(h, data, byte) ==
    IF LastOr(data, 1) = NUL
    THEN [acc |-> FALSE, data |-> Front(data), h |-> h]
    ELSE [acc |-> TRUE, data |-> Append(data, byte), h |-> h]

\* BarcodeHandler::push: [acc: accepted?, data: payload after, h: handler after].
BarcodePush(h, data, byte) ==
    IF ~h.accept_data
    THEN [acc |-> TRUE, data |-> data,
          h |-> [h EXCEPT !.raw_params = Append(@, byte), !.kind_id = byte,
                          !.kind = BarcodeKindOf(byte),
                          !.encoding = BarcodeEncodingOf(byte),
                          !.accept_data = TRUE]]
    ELSE CASE h.encoding = "NulTerminated" -> BarcodePushNul(h, data, byte)
           [] h.encoding = "ExplicitSize" -> BarcodePushExplicit(h, data, byte)
           [] OTHER -> [acc |-> FALSE, data |-> data, h |-> h]

\* BarcodeHandler::get_command_bytes: (prefix and parameters, payload).
BarcodeCommandBytes(c) ==
    <<c.commands \o c.h.raw_params,
      IF c.h.encoding = "NulTerminated" THEN Append(c.data, NUL) ELSE c.data>>

----------------------------------------------------------------------------
(* Render colours: thermal_parser/src/context.rs *)

RGBA(r, g, b, a) == [r |-> r, g |-> g, b |-> b, a |-> a]

\* The colours of Context::default: white paper, black, red, blue.
DefaultRenderColors ==
    [paper_color |-> RGBA(255, 255, 255, 255), color_1 |-> RGBA(0, 0, 0, 255),
     color_2 |-> RGBA(158, 22, 22, 255), color_3 |-> RGBA(27, 57, 169, 255)]

\* A mutant of color_for_number: every number gives the paper colour.
ColorForNumberPaper(colors, number) == colors.paper_color

\* RenderColors::color_for_number
color_for_number(colors, number) ==
    CASE number = 0 -> colors.paper_color
      [] number \in {1, 49} -> colors.color_1
      [] number \in {2, 50} -> colors.color_2
      [] number \in {3, 51} -> colors.color_3
      [] OTHER -> colors.color_1

----------------------------------------------------------------------------
(* Raster bit image handler: thermal_parser/src/commands/raster_bit_image.rs *)

\* Header bytes held in the payload until the fifth one arrives.
RasterHeaderHeld == 4

\* raster_bit_image::new: the fresh handler state.
NewRasterHandler ==
    [width |-> 0, height |-> 0, capacity |-> 0, scaling |-> 0,
     accept_data |-> FALSE, params |-> <<>>]

\* A mutant of RasterPush: one data byte too many is accepted.
RasterPushOffByOne(h, data, byte) ==
    IF ~h.accept_data
    THEN IF Len(data) < RasterHeaderHeld
         THEN [acc |-> TRUE, data |-> Append(data, byte), h |-> h]
         ELSE LET xl == data[2]
                  xh == data[3]
                  yl == data[4]
                  yh == byte
                  w  == xl + xh * 256
                  ht == yl + yh * 256
              IN [acc |-> TRUE, data |-> <<>>,
                  h |-> [h EXCEPT !.scaling = data[1], !.width = w * 8,
                                  !.height = ht, !.capacity = w * ht,
                                  !.params = <<data[1], xl, xh, yl, yh>>,
                                  !.accept_data = TRUE]]
    ELSE IF Len(data) > h.capacity
    THEN [acc |-> FALSE, data |-> data, h |-> h]
    ELSE [acc |-> TRUE, data |-> Append(data, byte), h |-> h]

\* Handler::push of the raster bit image.
RasterPush(h, data, byte) ==
    IF ~h.accept_data
    THEN IF Len(data) < RasterHeaderHeld
         THEN [acc |-> TRUE, data |-> Append(data, byte), h |-> h]
         ELSE LET xl == data[2]
                  xh == data[3]
                  yl == data[4]
                  yh == byte
                  w  == xl + xh * 256
                  ht == yl + yh * 256
              IN [acc |-> TRUE, data |-> <<>>,
                  h |-> [h EXCEPT !.scaling = data[1], !.width = w * 8,
                                  !.height = ht, !.capacity = w * ht,
                                  !.params = <<data[1], xl, xh, yl, yh>>,
                                  !.accept_data = TRUE]]
    ELSE IF Len(data) >= h.capacity
    THEN [acc |-> FALSE, data |-> data, h |-> h]
    ELSE [acc |-> TRUE, data |-> Append(data, byte), h |-> h]

\* A mutant of RasterStretch: every scaling byte leaves the image as it is.
RasterStretchNone(scaling) == <<1, 1>>

\* Handler::get_graphics of the raster bit image: the stretch of a scaling byte.
RasterStretch(scaling) ==
    CASE scaling \in {0, 48} -> <<1, 1>>
      [] scaling \in {1, 49} -> <<2, 1>>
      [] scaling \in {2, 50} -> <<1, 2>>
      [] scaling \in {3, 52} -> <<2, 2>>
      [] OTHER -> <<1, 1>>

\* Handler::get_graphics of the raster bit image: the single-colour image it
\* asks for, by width, height, stretch, colour, flow and pixel data.
RasterGraphics(c, context) ==
    [w |-> c.h.width, h |-> c.h.height,
     stretch |-> RasterStretch(c.h.scaling),
     color |-> color_for_number(context.graphics.render_colors, 1),
     flow |-> "Block",
     pixels |-> c.data]

\* The size of an image once its stretch is applied.
ScaledSize(image) ==
    [w |-> image.w * image.stretch[1], h |-> image.h * image.stretch[2]]

\* Handler::get_command_bytes of the raster bit image.
RasterCommandBytes(c) == <<c.commands, c.h.params \o c.data>>

----------------------------------------------------------------------------
(* Column bit image handler: src/parser/commands/bit_image.rs *)

\* bit_image::new: the fresh handler state.
NewBitImageHandler ==
    [width |-> 0, height |-> 0, capacity |-> 0, size |-> 0,
     is_bit_image |-> FALSE, buffer |-> 0, accept_data |-> FALSE]

\* (1 << bit_index) | buffer
SetBit(bits, bit_index) ==
    IF (bits \div (2 ^ bit_index)) % 2 = 1 THEN bits
    ELSE bits + 2 ^ bit_index

\* A mutant of BitImagePush: the double-density modes get the single-density
\* capacity.
BitImagePushSingleDensity(h, data, byte) ==
    IF h.accept_data
    THEN IF h.size >= h.capacity
         THEN [acc |-> FALSE, data |-> data, h |-> h]
         ELSE IF h.is_bit_image
         THEN LET bit_index == h.size % 8
                  filled == IF byte > 0 THEN SetBit(h.buffer, bit_index)
                            ELSE h.buffer
              IN IF bit_index = 7
                 THEN [acc |-> TRUE, data |-> Append(data, filled),
                       h |-> [h EXCEPT !.buffer = 0, !.size = @ + 1]]
                 ELSE [acc |-> TRUE, data |-> data,
                       h |-> [h EXCEPT !.buffer = filled, !.size = @ + 1]]
         ELSE [acc |-> TRUE, data |-> Append(data, byte),
               h |-> [h EXCEPT !.size = @ + 1]]
    ELSE IF Len(data) < 2
    THEN [acc |-> TRUE, data |-> Append(data, byte), h |-> h]
    ELSE LET m == data[1]
             width == data[2] + byte * 256
         IN [acc |-> TRUE, data |-> <<>>,
             h |-> [h EXCEPT !.width = width,
                             !.capacity = width,
                             !.height = IF m \in {32, 33} THEN 24 ELSE 8,
                             !.accept_data = TRUE]]

\* Handler::push of the column bit image.
BitImagePush(h, data, byte) ==
    IF h.accept_data
    THEN IF h.size >= h.capacity
         THEN [acc |-> FALSE, data |-> data, h |-> h]
         ELSE IF h.is_bit_image
         THEN LET bit_index == h.size % 8
                  filled == IF byte > 0 THEN SetBit(h.buffer, bit_index)
                            ELSE h.buffer
              IN IF bit_index = 7
                 THEN [acc |-> TRUE, data |-> Append(data, filled),
                       h |-> [h EXCEPT !.buffer = 0, !.size = @ + 1]]
                 ELSE [acc |-> TRUE, data |-> data,
                       h |-> [h EXCEPT !.buffer = filled, !.size = @ + 1]]
         ELSE [acc |-> TRUE, data |-> Append(data, byte),
               h |-> [h EXCEPT !.size = @ + 1]]
    ELSE IF Len(data) < 2
    THEN [acc |-> TRUE, data |-> Append(data, byte), h |-> h]
    ELSE LET m == data[1]
             width == data[2] + byte * 256
         IN [acc |-> TRUE, data |-> <<>>,
             h |-> [h EXCEPT !.width = width,
                             !.capacity = IF m \in {32, 33} THEN width * 3
                                          ELSE width,
                             !.height = IF m \in {32, 33} THEN 24 ELSE 8,
                             !.accept_data = TRUE]]

----------------------------------------------------------------------------
(* Command catalog and command instances *)

\* CommandSet built by command_sets::esc_pos::new, restricted to the
\* descriptors whose handlers are modelled here.
EscPosCommands ==
    { [name |-> "Barcode", commands |-> <<GS, Chr_k>>, kind |-> "Graphics",
       data_type |-> "Custom", handler |-> "barcode"],
      [name |-> "Raster Bit Image", commands |-> <<GS, Chr_v, Chr_0>>,
       kind |-> "Graphics", data_type |-> "Custom", handler |-> "raster"] }

\* A command set with a nested pair of prefixes: a one-parameter command on
\* GS 'v' beside the raster bit image on GS 'v' '0'.
NestedCommands ==
    EscPosCommands \cup
    { [name |-> "GS v", commands |-> <<GS, Chr_v>>, kind |-> "Context",
       data_type |-> "Single", handler |-> "single"] }

\* The command set of the earlier parser (src/parser), restricted to the
\* column bit image on ESC '*'.
BitImageCommands ==
    { [name |-> "Bit Image", commands |-> <<ESC, Chr_star>>, kind |-> "Image",
       data_type |-> "Custom", handler |-> "bit_image"] }

\* The default (text) descriptor of the CommandSet.
TextCommand ==
    [name |-> "Text", commands |-> <<>>, kind |-> "Text",
     data_type |-> "Text", handler |-> "text"]

NoHandler == [accept_data |-> FALSE]

\* No command in flight (Option::None).
NoCmd ==
    [name |-> "None", commands |-> <<>>, kind |-> "None",
     data_type |-> "Empty", handler |-> "none", data |-> <<>>, h |-> NoHandler]

\* The free families of input streams (any byte of the family's alphabet may
\* follow any other) and the scripted ones (one fixed stream, which may stop
\* after any byte).
FreeFixtures ==
    {"barcode", "raster", "nested", "bit_image", "selectors", "gs1"}

ScriptFixtures == {"nul_barcode", "sized_barcode", "raster_image"}

Fixtures == FreeFixtures \cup ScriptFixtures

\* 1D 6B 04 "ABC" 00 1D: a NUL-terminated Code39 barcode followed by a GS.
NulBarcodeStream == <<GS, Chr_k, 4, 65, 66, 67, NUL, GS>>

\* 1D 6B 49 05 "HELLO" 1D: a sized Code128 barcode followed by a GS.
SizedBarcodeStream == <<GS, Chr_k, 73, 5, 72, 69, 76, 76, 79, GS>>

\* 1D 76 30 03 02 00 01 00 FF 81 1D: a raster bit image with scaling byte 3,
\* xL xH = 2 0, yL yH = 1 0 and two pixel bytes, followed by a GS.
RasterImageStream == <<GS, Chr_v, Chr_0, 3, 2, 0, 1, 0, 255, 129, GS>>

Script(f) ==
    IF f = "nul_barcode" THEN NulBarcodeStream
    ELSE IF f = "sized_barcode" THEN SizedBarcodeStream
    ELSE RasterImageStream

Alphabet(f) ==
    CASE f = "barcode" -> {NUL, 2, 4, GS, 73, Chr_k}
      [] f = "raster"  -> {NUL, 1, GS, Chr_0, Chr_v}
      [] f = "nested"  -> {1, GS, Chr_0, Chr_v}
      [] f = "bit_image" -> {NUL, 1, 32, ESC, Chr_star}
      [] f = "selectors" -> {1, 7, 74, GS, Chr_k}
      [] f = "gs1" -> (80..85) \cup {4, NUL, GS, Chr_k}
      [] OTHER -> {}

Catalog(f) ==
    IF f = "nested" THEN NestedCommands
    ELSE IF f = "bit_image" THEN BitImageCommands
    ELSE EscPosCommands

\* Command::new: a fresh instance of a descriptor, with its own handler state.
NewCommand(d) ==
    [name |-> d.name, commands |-> d.commands, kind |-> d.kind,
     data_type |-> d.data_type, handler |-> d.handler, data |-> <<>>,
     h |-> CASE d.handler = "barcode" -> NewBarcodeHandler
             [] d.handler = "raster" -> NewRasterHandler
             [] d.handler = "bit_image" -> NewBitImageHandler
             [] OTHER -> NoHandler]

\* The bytes that can begin a known command prefix.
FirstBytes(cat) == { d.commands[1] : d \in cat }

\* Command::push: the data-type rule, or the handler's own push for Custom.
Push(cat, c, byte) ==
    CASE c.handler = "barcode" -> BarcodePush(c.h, c.data, byte)
      [] c.handler = "raster" -> RasterPush(c.h, c.data, byte)
      [] c.handler = "bit_image" -> BitImagePush(c.h, c.data, byte)
      [] c.handler = "single" ->
            IF Len(c.data) < 1
            THEN [acc |-> TRUE, data |-> Append(c.data, byte), h |-> c.h]
            ELSE [acc |-> FALSE, data |-> c.data, h |-> c.h]
      [] OTHER ->
            IF byte \in FirstBytes(cat)
            THEN [acc |-> FALSE, data |-> c.data, h |-> c.h]
            ELSE [acc |-> TRUE, data |-> Append(c.data, byte), h |-> c.h]

\* CommandHandler::get_command_bytes: (prefix bytes, payload bytes).
CommandBytes(c) ==
    CASE c.handler = "barcode" -> BarcodeCommandBytes(c)
      [] c.handler = "raster" -> RasterCommandBytes(c)
      [] OTHER -> <<c.commands, c.data>>

\* A finished instance as handed downstream, with the input bytes it consumed.
Emitted(c, bytes) == [cmd |-> c, consumed |-> bytes]

----------------------------------------------------------------------------
(* Parser state machine (Idle / Dispatch / Accumulate / Complete) *)

ParserState(buf, c, bytes, out) ==
    [buffer |-> buf, cur |-> c, curBytes |-> bytes, emit |-> out]

\* A mutant of Match: commits to a descriptor as soon as its prefix is read,
\* also when a longer prefix could still match.
MatchFirst(cat, nb, out) ==
    LET cands == { d \in cat : IsPrefixOf(nb, d.commands) }
        exact == { d \in cands : d.commands = nb }
    IN IF cands = {}
       THEN ParserState(<<>>, [NewCommand(TextCommand) EXCEPT !.data = nb],
                        <<>>, out)
       ELSE IF exact # {}
       THEN ParserState(<<>>, NewCommand(CHOOSE d \in exact : TRUE), nb, out)
       ELSE ParserState(nb, NoCmd, <<>>, out)

\* Idle: the buffered bytes nb are matched against the prefixes. No candidate:
\* all buffered bytes go to the default (text) handler, in order. A unique
\* exact match: Dispatch. Otherwise the ambiguity remains and nb stays buffered.
Match(cat, nb, out) ==
    LET cands == { d \in cat : IsPrefixOf(nb, d.commands) }
        exact == { d \in cands : d.commands = nb }
    IN IF cands = {}
       THEN ParserState(<<>>, [NewCommand(TextCommand) EXCEPT !.data = nb],
                        <<>>, out)
       ELSE IF cands = exact
       THEN ParserState(<<>>, NewCommand(CHOOSE d \in exact : TRUE), nb, out)
       ELSE ParserState(nb, NoCmd, <<>>, out)

\* Accumulate: the byte is offered to the command; a rejected byte completes
\* the command (it is emitted) and is pushed back to Idle.
Accumulate(cat, c, bytes, byte) ==
    LET r == Push(cat, c, byte)
        after == [c EXCEPT !.data = r.data, !.h = r.h]
    IN IF r.acc
       THEN ParserState(<<>>, after, Append(bytes, byte), <<>>)
       ELSE Match(cat, <<byte>>, <<Emitted(after, bytes)>>)

\* Idle with bytes already buffered: the byte joins the ambiguity buffer and
\* the whole buffer is matched again.
Idle(cat, buf, byte) == Match(cat, Append(buf, byte), <<>>)

\* One byte through the parser.
ParseStep(cat, buf, c, bytes, byte) ==
    IF c # NoCmd THEN Accumulate(cat, c, bytes, byte) ELSE Idle(cat, buf, byte)

\* The payload bound a free stream is driven to.
Cap(c) ==
    IF c.handler = "raster"
    THEN IF c.h.accept_data THEN MaxRaster ELSE RasterHeaderHeld
    ELSE MaxPayload

\* The bytes the input stream may continue with.
NextBytes ==
    IF fixture \in FreeFixtures THEN Alphabet(fixture)
    ELSE IF pos < Len(Script(fixture)) THEN { Script(fixture)[pos + 1] }
    ELSE {}

BeginEvent ==
    [name |-> "Begin Print", commands |-> <<>>, kind |-> "Control",
     data_type |-> "Empty", handler |-> "none", data |-> <<>>, h |-> NoHandler]

EndEvent ==
    [name |-> "End Print", commands |-> <<>>, kind |-> "Control",
     data_type |-> "Empty", handler |-> "none", data |-> <<>>, h |-> NoHandler]

ParserInit ==
    /\ fixture \in Fixtures
    /\ phase = "start"
    /\ buffer = <<>>
    /\ cur = NoCmd
    /\ curBytes = <<>>
    /\ emit = <<>>
    /\ pos = 0

\* Stream start: the synthetic begin_parsing command is emitted.
BeginParsing ==
    /\ phase = "start"
    /\ phase' = "parsing"
    /\ emit' = <<Emitted(BeginEvent, <<>>)>>
    /\ UNCHANGED <<fixture, buffer, cur, curBytes, pos>>
    /\ UNCHANGED <<ctxVars, pureVars, renderVars>>

\* parse_byte: one input byte arrives.
ParseByte ==
    /\ phase = "parsing"
    /\ \E byte \in NextBytes :
         LET r == ParseStep(Catalog(fixture), buffer, cur, curBytes, byte)
         IN /\ \/ fixture \in ScriptFixtures
               \/ r.cur = NoCmd
               \/ Len(r.cur.data) <= Cap(r.cur)
            /\ buffer' = r.buffer
            /\ cur' = r.cur
            /\ curBytes' = r.curBytes
            /\ emit' = r.emit
    /\ pos' = IF fixture \in ScriptFixtures THEN pos + 1 ELSE pos
    /\ UNCHANGED <<fixture, phase>>
    /\ UNCHANGED <<ctxVars, pureVars, renderVars>>

\* End of stream: a partial command is finalized as it stands (push is not
\* called again), undecided buffered bytes go to the default handler, and the
\* synthetic end_parsing command is emitted.
EndParsing ==
    /\ phase = "parsing"
    /\ phase' = "done"
    /\ emit' = (IF cur # NoCmd THEN <<Emitted(cur, curBytes)>>
                ELSE IF buffer # <<>>
                THEN <<Emitted([NewCommand(TextCommand) EXCEPT !.data = buffer],
                               <<>>)>>
                ELSE <<>>) \o <<Emitted(EndEvent, <<>>)>>
    /\ cur' = NoCmd
    /\ curBytes' = <<>>
    /\ buffer' = <<>>
    /\ UNCHANGED <<fixture, pos>>
    /\ UNCHANGED <<ctxVars, pureVars, renderVars>>

----------------------------------------------------------------------------
(* Context: thermal_parser/src/context.rs *)

Directions ==
    {"TopLeft2Right", "BottomRight2Left", "TopRight2Bottom", "BottomLeft2Top"}

Area(x, y, w, h) == [x |-> x, y |-> y, w |-> w, h |-> h]

\* u32::saturating_sub
SatSub(a, b) == IF a > b THEN a - b ELSE 0

Max(a, b) == IF a >= b THEN a ELSE b

\* Integer division truncating toward zero (i16 and u32 division).
TruncDiv(a, b) == IF a >= 0 THEN a \div b ELSE -((-a) \div b)

\* Context::default: the factory settings; its own default is None.
DefaultContext ==
    [default |-> <<>>,
     text |-> [character_width |-> 12, character_height |-> 24,
               character_set |-> 0, code_table |-> 0, font_size |-> 10,
               justify |-> "Left", font |-> "A", bold |-> FALSE,
               italic |-> FALSE, underline |-> "Off", strikethrough |-> "Off",
               invert |-> FALSE, width_mult |-> 1, height_mult |-> 1,
               upside_down |-> FALSE, line_spacing |-> 24, shadow |-> FALSE,
               smoothing |-> FALSE, tabs |-> [i \in 1..32 |-> 8]],
     barcode |-> [human_readable |-> "None", width |-> 3, height |-> 40,
                  font |-> "A"],
     code2d |-> [qr_model |-> "Model1", qr_error_correction |-> "L",
                 qr_size |-> 3],
     graphics |-> [render_colors |-> DefaultRenderColors,
                   render_area |-> Area(0, 60, 609, 0),
                   paper_area |-> Area(20, 20, 649, 0),
                   dots_per_inch |-> 203, v_motion_unit |-> 1,
                   h_motion_unit |-> 1, graphics_count |-> 0,
                   stored_graphics |-> <<>>],
     page_mode |-> [enabled |-> FALSE,
                    logical_area |-> Area(0, 0, 0, 0),
                    render_area |-> Area(0, 0, 0, 0),
                    page_area |-> Area(0, 0, 0, 0),
                    direction |-> "TopLeft2Right",
                    previous_direction |-> "TopLeft2Right"]]

\* Context::new: the factory settings with a snapshot of themselves as default.
NewContext == [DefaultContext EXCEPT !.default = <<DefaultContext>>]

\* A mutant of reset: the whole context is replaced by the snapshot
\* (page mode included), the snapshot kept.
ResetAll(c) ==
    IF Len(c.default) > 0
    THEN [c.default[1] EXCEPT !.default = c.default]
    ELSE c

\* A mutant of reset: the sections are exchanged with the snapshot's
\* (mem::swap) instead of being cloned from it.
ResetSwap(c) ==
    IF Len(c.default) > 0
    THEN [c EXCEPT !.text = c.default[1].text,
                   !.barcode = c.default[1].barcode,
                   !.code2d = c.default[1].code2d,
                   !.graphics = c.default[1].graphics,
                   !.default = <<[c.default[1] EXCEPT !.text = c.text,
                                                      !.barcode = c.barcode,
                                                      !.code2d = c.code2d,
                                                      !.graphics = c.graphics]>>]
    ELSE c

\* Context::reset
Reset(c) ==
    IF Len(c.default) > 0
    THEN [c EXCEPT !.text = c.default[1].text,
                   !.barcode = c.default[1].barcode,
                   !.code2d = c.default[1].code2d,
                   !.graphics = c.default[1].graphics]
    ELSE c

\* Context::get_base_x
GetBaseX(c) == IF c.page_mode.enabled THEN c.page_mode.page_area.x ELSE 0

\* Context::get_base_y
GetBaseY(c) == IF c.page_mode.enabled THEN c.page_mode.page_area.y ELSE 0

\* Context::get_x
GetX(c) ==
    IF c.page_mode.enabled THEN c.page_mode.render_area.x
    ELSE c.graphics.render_area.x

\* Context::get_y
GetY(c) ==
    IF c.page_mode.enabled THEN c.page_mode.render_area.y
    ELSE c.graphics.render_area.y

\* Context::reset_x
ResetX(c) ==
    IF c.page_mode.enabled
    THEN [c EXCEPT !.page_mode.render_area.x = GetBaseX(c)]
    ELSE [c EXCEPT !.graphics.render_area.x = GetBaseX(c)]

\* Context::reset_y
ResetY(c) ==
    IF c.page_mode.enabled
    THEN [c EXCEPT !.page_mode.render_area.y = GetBaseY(c)]
    ELSE [c EXCEPT !.graphics.render_area.y = GetBaseY(c)]

\* Context::set_x over PageModeContext::set_x
SetX(c, x) ==
    IF c.page_mode.enabled
    THEN [c EXCEPT !.page_mode.render_area.x = c.page_mode.page_area.x + x]
    ELSE [c EXCEPT !.graphics.render_area.x = x]

\* Context::set_y over PageModeContext::set_y
SetY(c, y) ==
    IF c.page_mode.enabled
    THEN [c EXCEPT !.page_mode.render_area.y = c.page_mode.page_area.y + y]
    ELSE [c EXCEPT !.graphics.render_area.y = y]

\* Context::offset_x over PageModeContext::offset_x
OffsetX(c, x) ==
    IF c.page_mode.enabled
    THEN [c EXCEPT !.page_mode.render_area.x = @ + x]
    ELSE [c EXCEPT !.graphics.render_area.x = @ + x]

\* Context::offset_y over PageModeContext::offset_y
OffsetY(c, y) ==
    IF c.page_mode.enabled
    THEN [c EXCEPT !.page_mode.render_area.y = @ + y]
    ELSE [c EXCEPT !.graphics.render_area.y = @ + y]

\* PageModeContext::set_x_absolute
PageSetXAbsolute(pm, x) ==
    LET r == pm.render_area
        p == pm.page_area
    IN CASE pm.direction = "TopLeft2Right" ->
              [pm EXCEPT !.render_area.x = p.x + x]
         [] pm.direction = "BottomRight2Left" ->
              [pm EXCEPT !.render_area.x = SatSub(p.x + r.w, x)]
         [] pm.direction = "TopRight2Bottom" ->
              [pm EXCEPT !.render_area.y = SatSub(r.h, x)]
         [] OTHER ->
              [pm EXCEPT !.render_area.y = p.y + x]

\* PageModeContext::set_y_absolute
PageSetYAbsolute(pm, y) ==
    LET r == pm.render_area
        p == pm.page_area
    IN CASE pm.direction = "TopLeft2Right" ->
              [pm EXCEPT !.render_area.y = p.y + y]
         [] pm.direction = "BottomRight2Left" ->
              [pm EXCEPT !.render_area.y = p.y + SatSub(r.h, y)]
         [] pm.direction = "TopRight2Bottom" ->
              [pm EXCEPT !.render_area.x = p.x + y]
         [] OTHER ->
              [pm EXCEPT !.render_area.x = p.x + SatSub(r.w, y)]

\* PageModeContext::offset_x_relative
PageOffsetXRelative(pm, x) ==
    [pm EXCEPT !.render_area.x = Max(pm.render_area.x + x, 0)]

\* PageModeContext::offset_y_relative
PageOffsetYRelative(pm, y) ==
    [pm EXCEPT !.render_area.y = Max(pm.render_area.y + y, 0)]

\* The outcome of a context operation: the context after it, and the abort it
\* ran into ("none" when it completed).
Done(c) == [ctx |-> c, panic |-> "none"]

Abort(c, why) == [ctx |-> c, panic |-> why]

\* Context::offset_x_relative: x is divided by the horizontal motion unit;
\* saturating_div by zero panics.
OffsetXRelative(c, x) ==
    IF c.graphics.h_motion_unit = 0 THEN Abort(c, "divide_by_zero")
    ELSE LET adj_x == TruncDiv(x, c.graphics.h_motion_unit)
         IN IF c.page_mode.enabled
            THEN Done([c EXCEPT !.page_mode = PageOffsetXRelative(@, adj_x)])
            ELSE Done([c EXCEPT !.graphics.render_area.x = Max(@ + adj_x, 0)])

\* Context::offset_y_relative
OffsetYRelative(c, y) ==
    IF c.graphics.v_motion_unit = 0 THEN Abort(c, "divide_by_zero")
    ELSE LET adj_y == TruncDiv(y, c.graphics.v_motion_unit)
         IN IF c.page_mode.enabled
            THEN Done([c EXCEPT !.page_mode = PageOffsetYRelative(@, adj_y)])
            ELSE Done([c EXCEPT !.graphics.render_area.y = Max(@ + adj_y, 0)])

\* Context::set_x_absolute
SetXAbsolute(c, x) ==
    IF c.graphics.h_motion_unit = 0 THEN Abort(c, "divide_by_zero")
    ELSE LET adj_x == TruncDiv(x, c.graphics.h_motion_unit)
         IN IF c.page_mode.enabled
            THEN Done([c EXCEPT !.page_mode = PageSetXAbsolute(@, adj_x)])
            ELSE Done([c EXCEPT !.graphics.render_area.x = adj_x])

\* Context::set_y_absolute
SetYAbsolute(c, y) ==
    IF c.graphics.v_motion_unit = 0 THEN Abort(c, "divide_by_zero")
    ELSE LET adj_y == TruncDiv(y, c.graphics.v_motion_unit)
         IN IF c.page_mode.enabled
            THEN Done([c EXCEPT !.page_mode = PageSetYAbsolute(@, adj_y)])
            ELSE Done([c EXCEPT !.graphics.render_area.y = adj_y])

\* Context::set_page_area
SetPageArea(c, area) ==
    IF c.graphics.h_motion_unit = 0 \/ c.graphics.v_motion_unit = 0
    THEN Abort(c, "divide_by_zero")
    ELSE Done([c EXCEPT !.page_mode.logical_area =
                 Area(TruncDiv(area.x, c.graphics.h_motion_unit),
                      TruncDiv(area.y, c.graphics.v_motion_unit),
                      TruncDiv(area.w, c.graphics.h_motion_unit),
                      TruncDiv(area.h, c.graphics.v_motion_unit))])

----------------------------------------------------------------------------
(* Page mode: rotation and logical area *)

\* The direction -> index match of calculate_directional_rotation.
DirectionIndex(d) ==
    CASE d = "TopRight2Bottom" -> 3
      [] d = "BottomRight2Left" -> 2
      [] d = "BottomLeft2Top" -> 1
      [] OTHER -> 0

\* The remainder of Rust's % operator: it takes the sign of the dividend.
RemTruncated(a, n) == IF a >= 0 THEN a % n ELSE -((-a) % n)

\* i8::rem_euclid: the non-negative remainder.
RemEuclid(a, n) == a % n

\* PageModeContext::calculate_directional_rotation
calculate_directional_rotation(from, to) ==
    LET previous == DirectionIndex(from)
        current == DirectionIndex(to)
        orientation_delta == RemEuclid(current - previous, 4)
    IN CASE orientation_delta = 1 -> "R90"
         [] orientation_delta = 2 -> "R180"
         [] orientation_delta = 3 -> "R270"
         [] OTHER -> "R0"

\* A mutant of should_dimension_swap: only TopRight2Bottom asks for the swap.
ShouldSwapTopRightOnly(d) == d = "TopRight2Bottom"

\* PageModeContext::should_dimension_swap
should_dimension_swap(d) == d \notin {"TopLeft2Right", "BottomRight2Left"}

\* A mutant of the swap condition: the dimensions are exchanged on entering a
\* swapping direction and never exchanged back.
DimensionSwapOneWay(previous, direction) ==
    ~should_dimension_swap(previous) /\ should_dimension_swap(direction)

\* The swap condition of apply_logical_area: whether mem::swap runs on
\* page_area.w and page_area.h.
dimension_swap(previous, direction) ==
    LET previously_swapped == should_dimension_swap(previous)
        should_swap == should_dimension_swap(direction)
    IN (~previously_swapped /\ should_swap)
          \/ (~should_swap /\ previously_swapped)

\* A mutant of translate_top_left_to_right: the render area starts at 0, 0.
TranslateTopLeftAtOrigin(l, p) == Area(0, 0, l.w, l.h)

\* PageModeContext::translate_top_left_to_right
translate_top_left_to_right(l, p) == Area(l.x, l.y, l.w, l.h)

\* PageModeContext::translate_bottom_right_to_left
translate_bottom_right_to_left(l, p) ==
    Area(SatSub(p.w, l.x + l.w), l.y, l.w, l.h)

\* A mutant of translate_top_right_to_bottom: the render area keeps the
\* logical width and height unexchanged.
TranslateTopRightUnswapped(l, p) ==
    Area(SatSub(p.w, l.y + l.h), SatSub(p.h, l.x + l.w), l.w, l.h)

\* PageModeContext::translate_top_right_to_bottom
translate_top_right_to_bottom(l, p) ==
    Area(SatSub(p.w, l.y + l.h), SatSub(p.h, l.x + l.w), l.h, l.w)

\* PageModeContext::translate_bottom_left_to_top
translate_bottom_left_to_top(l, p) ==
    Area(SatSub(p.w, l.y + l.h), l.x, l.h, l.w)

\* A mutant of apply_logical_area: the page area keeps its origin.
ApplyLogicalAreaKeepsOrigin(pm) ==
    LET rot == calculate_directional_rotation(pm.previous_direction, pm.direction)
        swap == dimension_swap(pm.previous_direction, pm.direction)
        p0 == IF swap
              THEN Area(pm.page_area.x, pm.page_area.y, pm.page_area.h, pm.page_area.w)
              ELSE pm.page_area
        l == pm.logical_area
        r == CASE pm.direction = "TopLeft2Right" -> translate_top_left_to_right(l, p0)
               [] pm.direction = "BottomRight2Left" -> translate_bottom_right_to_left(l, p0)
               [] pm.direction = "TopRight2Bottom" -> translate_top_right_to_bottom(l, p0)
               [] OTHER -> translate_bottom_left_to_top(l, p0)
        p1 == Area(p0.x, p0.y, Max(r.x + r.w, p0.w), Max(r.y + r.h, p0.h))
    IN [pm |-> [pm EXCEPT !.render_area = r, !.page_area = p1],
        rotation |-> rot, w |-> p1.w, h |-> p1.h, swapped |-> swap]

\* PageModeContext::apply_logical_area: the page mode context after it and the
\* (rotation, page width, page height) it returns.
apply_logical_area(pm) ==
    LET rot == calculate_directional_rotation(pm.previous_direction, pm.direction)
        swap == dimension_swap(pm.previous_direction, pm.direction)
        p0 == IF swap
              THEN Area(pm.page_area.x, pm.page_area.y, pm.page_area.h, pm.page_area.w)
              ELSE pm.page_area
        l == pm.logical_area
        r == CASE pm.direction = "TopLeft2Right" -> translate_top_left_to_right(l, p0)
               [] pm.direction = "BottomRight2Left" -> translate_bottom_right_to_left(l, p0)
               [] pm.direction = "TopRight2Bottom" -> translate_top_right_to_bottom(l, p0)
               [] OTHER -> translate_bottom_left_to_top(l, p0)
        p1 == Area(r.x, r.y, Max(r.x + r.w, p0.w), Max(r.y + r.h, p0.h))
    IN [pm |-> [pm EXCEPT !.render_area = r, !.page_area = p1],
        rotation |-> rot, w |-> p1.w, h |-> p1.h, swapped |-> swap]

----------------------------------------------------------------------------
(* Context operations as steps of the renderer *)

\* The arguments the operations are driven with.
Coords == {1, MaxCoord}

Offsets == {0 - MaxCoord, 1}

MotionUnits == {0, MaxCoord}

Areas == { Area(1, 0, MaxCoord, 1), Area(0, 1, 1, MaxCoord) }

ContextInit ==
    /\ ctx = NewContext
    /\ panic = "none"
    /\ lastOp = "new"
    /\ resets = 0
    /\ rotation = "R0"
    /\ steps = 0
    /\ trail = <<>>
    /\ swaps = 0

\* One operation: it runs only while the program has not aborted.
ContextStep(name, out) ==
    /\ panic = "none"
    /\ steps < MaxSteps
    /\ ctx' = out.ctx
    /\ panic' = out.panic
    /\ lastOp' = name
    /\ resets' = (IF name # "reset" THEN 0 ELSE IF resets = 0 THEN 1 ELSE 2)
    /\ steps' = steps + 1
    /\ UNCHANGED <<trail, swaps>>
    /\ UNCHANGED <<parserVars, pureVars, renderVars>>

\* Initialize (ESC @): context.reset()
Initialize ==
    /\ ContextStep("reset", Done(Reset(ctx)))
    /\ UNCHANGED rotation

\* DeviceCommand::BeginPageMode
BeginPageMode ==
    /\ ContextStep("begin_page_mode", Done([ctx EXCEPT !.page_mode.enabled = TRUE]))
    /\ UNCHANGED rotation

\* DeviceCommand::EndPageMode
EndPageMode ==
    /\ ContextStep("end_page_mode", Done([ctx EXCEPT !.page_mode.enabled = FALSE]))
    /\ UNCHANGED rotation

\* DeviceCommand::ChangePageArea
ChangePageArea ==
    LET pm == [ctx.page_mode EXCEPT !.previous_direction = ctx.page_mode.direction]
        out == apply_logical_area(pm)
    IN /\ ContextStep("apply_logical_area", Done([ctx EXCEPT !.page_mode = out.pm]))
       /\ rotation' = out.rotation

\* DeviceCommand::ChangePageModeDirection
ChangePageModeDirection ==
    LET out == apply_logical_area(ctx.page_mode)
    IN /\ ContextStep("apply_logical_area", Done([ctx EXCEPT !.page_mode = out.pm]))
       /\ rotation' = out.rotation

\* Select print direction in page mode (ESC T): the direction in force
\* becomes the previous one.
SetDirection ==
    \E d \in Directions :
       /\ ContextStep("set_direction",
             Done([ctx EXCEPT !.page_mode.previous_direction = ctx.page_mode.direction,
                              !.page_mode.direction = d]))
       /\ UNCHANGED rotation

\* Set print area in page mode (ESC W): context.set_page_area(area)
CmdSetPageArea ==
    \E a \in Areas :
       /\ ContextStep("set_page_area", SetPageArea(ctx, a))
       /\ UNCHANGED rotation

\* Set motion units (GS P x y)
SetMotionUnits ==
    \E hu \in MotionUnits, vu \in MotionUnits :
       /\ ContextStep("set_motion_units",
             Done([ctx EXCEPT !.graphics.h_motion_unit = hu,
                              !.graphics.v_motion_unit = vu]))
       /\ UNCHANGED rotation

CmdSetX ==
    \E x \in Coords :
       /\ ContextStep("set_x", Done(SetX(ctx, x)))
       /\ UNCHANGED rotation

CmdSetY ==
    \E y \in Coords :
       /\ ContextStep("set_y", Done(SetY(ctx, y)))
       /\ UNCHANGED rotation

CmdOffsetX ==
    \E x \in Coords :
       /\ ContextStep("offset_x", Done(OffsetX(ctx, x)))
       /\ UNCHANGED rotation

CmdOffsetY ==
    \E y \in Coords :
       /\ ContextStep("offset_y", Done(OffsetY(ctx, y)))
       /\ UNCHANGED rotation

CmdResetX ==
    /\ ContextStep("reset_x", Done(ResetX(ctx)))
    /\ UNCHANGED rotation

CmdResetY ==
    /\ ContextStep("reset_y", Done(ResetY(ctx)))
    /\ UNCHANGED rotation

CmdSetXAbsolute ==
    \E x \in Coords :
       /\ ContextStep("set_x_absolute", SetXAbsolute(ctx, x))
       /\ UNCHANGED rotation

CmdSetYAbsolute ==
    \E y \in Coords :
       /\ ContextStep("set_y_absolute", SetYAbsolute(ctx, y))
       /\ UNCHANGED rotation

CmdOffsetXRelative ==
    \E x \in Offsets :
       /\ ContextStep("offset_x_relative", OffsetXRelative(ctx, x))
       /\ UNCHANGED rotation

CmdOffsetYRelative ==
    \E y \in Offsets :
       /\ ContextStep("offset_y_relative", OffsetYRelative(ctx, y))
       /\ UNCHANGED rotation

\* DeviceCommand::Justify
Justify ==
    \E j \in {"Center", "Right"} :
       /\ ContextStep("justify", Done([ctx EXCEPT !.text.justify = j]))
       /\ UNCHANGED rotation

\* DeviceCommand::SetTextWidth
SetTextWidth ==
    \E w \in {MaxCoord} :
       /\ ContextStep("set_text_width", Done([ctx EXCEPT !.text.width_mult = w]))
       /\ UNCHANGED rotation

\* Set barcode height (GS h n)
SetBarcodeHeight ==
    \E n \in {MaxCoord} :
       /\ ContextStep("set_barcode_height", Done([ctx EXCEPT !.barcode.height = n]))
       /\ UNCHANGED rotation

\* Set QR module size
SetQrSize ==
    \E n \in {MaxCoord} :
       /\ ContextStep("set_qr_size", Done([ctx EXCEPT !.code2d.qr_size = n]))
       /\ UNCHANGED rotation

----------------------------------------------------------------------------
(* Page-mode commands, each with the device command it issues *)

\* The logical areas the print-area command is driven with.
PageAreas == { Area(0, 0, 100, 200), Area(1, 0, MaxCoord, 1) }

NoArea == Area(0, 0, 0, 0)

\* One entry of the trail of page-mode commands.
TrailEntry(op, dir, area) == [op |-> op, dir |-> dir, area |-> area]

\* One page-mode command: out is the context after it, the rotation its
\* apply_logical_area returned (or the one in force) and whether the page
\* area's w and h were exchanged.
PageStep(entry, out) ==
    /\ panic = "none"
    /\ steps < MaxSteps
    /\ ctx' = out.ctx
    /\ rotation' = out.rotation
    /\ swaps' = (IF out.swapped THEN 1 - swaps ELSE swaps)
    /\ trail' = Append(trail, entry)
    /\ resets' = 0
    /\ steps' = steps + 1
    /\ UNCHANGED panic
    /\ UNCHANGED <<parserVars, pureVars, renderVars>>

\* A mutant of DeviceChangePageArea: previous_direction is left as it is.
DeviceChangePageAreaStaleDirection(c) ==
    LET out == apply_logical_area(c.page_mode)
    IN [ctx |-> [c EXCEPT !.page_mode = out.pm],
        rotation |-> out.rotation, swapped |-> out.swapped]

\* DeviceCommand::ChangePageArea applied to a context.
DeviceChangePageArea(c) ==
    LET pm == [c.page_mode EXCEPT !.previous_direction = c.page_mode.direction]
        out == apply_logical_area(pm)
    IN [ctx |-> [c EXCEPT !.page_mode = out.pm],
        rotation |-> out.rotation, swapped |-> out.swapped]

\* DeviceCommand::ChangePageModeDirection applied to a context.
DeviceChangePageModeDirection(c) ==
    LET out == apply_logical_area(c.page_mode)
    IN [ctx |-> [c EXCEPT !.page_mode = out.pm],
        rotation |-> out.rotation, swapped |-> out.swapped]

\* ESC L: enter page mode (BeginPageMode).
EnterPageMode ==
    /\ lastOp' = "begin_page_mode"
    /\ PageStep(TrailEntry("begin", "none", NoArea),
                [ctx |-> [ctx EXCEPT !.page_mode.enabled = TRUE],
                 rotation |-> rotation, swapped |-> FALSE])

\* ESC S: leave page mode (EndPageMode).
ExitPageMode ==
    /\ lastOp' = "end_page_mode"
    /\ PageStep(TrailEntry("end", "none", NoArea),
                [ctx |-> [ctx EXCEPT !.page_mode.enabled = FALSE],
                 rotation |-> rotation, swapped |-> FALSE])

\* ESC T: the direction in force becomes the previous one, the new one is
\* stored, and ChangePageModeDirection is issued.
PrintDirection ==
    \E d \in Directions :
       /\ lastOp' = "print_direction"
       /\ PageStep(TrailEntry("direction", d, NoArea),
                   DeviceChangePageModeDirection(
                       [ctx EXCEPT !.page_mode.previous_direction = ctx.page_mode.direction,
                                   !.page_mode.direction = d]))

\* ESC W: the logical area is stored (set_page_area) and ChangePageArea is
\* issued.
PrintArea ==
    \E a \in PageAreas :
       /\ SetPageArea(ctx, a).panic = "none"
       /\ lastOp' = "print_area"
       /\ PageStep(TrailEntry("area", "none", a),
                   DeviceChangePageArea(SetPageArea(ctx, a).ctx))

----------------------------------------------------------------------------
(* Layout engine: thermal_renderer/src/renderer.rs *)

\* A text is a sequence of characters; these three are the ones the layout
\* engine treats specially.
SP == " "
LF == "\n"
HT == "\t"

\* Context::get_width
GetWidth(c) ==
    IF c.page_mode.enabled THEN c.page_mode.render_area.w
    ELSE c.graphics.render_area.w

\* Context::get_available_width
\* A mutant of GetAvailableWidth: the whole width counts as available.
GetAvailableWidthWhole(c) == GetWidth(c)

GetAvailableWidth(c) ==
    IF c.page_mode.enabled
    THEN SatSub(c.page_mode.render_area.w,
                SatSub(c.page_mode.render_area.x, c.page_mode.page_area.x))
    ELSE IF c.graphics.render_area.x <= c.graphics.render_area.w
         THEN SatSub(c.graphics.render_area.w, c.graphics.render_area.x)
         ELSE 0

\* Context::newline
Newline(c, count) == OffsetY(ResetX(c), c.text.line_spacing * count)

\* The tallest character of spans, at least `least`.
RECURSIVE TallestOf(_, _)
TallestOf(spans, least) ==
    IF spans = <<>> THEN least
    ELSE TallestOf(Tail(spans), Max(least, Head(spans).character_height))

\* Context::newline_for_spans
newline_for_spans(c, spans) ==
    OffsetY(ResetX(c), TallestOf(spans, c.text.line_spacing))

\* Context::calculate_justification
calculate_justification(c, w) ==
    LET render_width == GetWidth(c)
    IN IF w > render_width THEN 0
       ELSE IF c.text.justify = "Center" THEN (render_width - w) \div 2
       ELSE IF c.text.justify = "Right" THEN render_width - w
       ELSE 0

\* TextSpan::new: the span takes the style in force when the text arrives.
\* Only the fields the layout reads are kept.
TextSpan(text, c) ==
    [text |-> text,
     justify |-> c.text.justify,
     character_width |-> c.text.character_width,
     character_height |-> c.text.character_height]

\* TextSpan::get_width: every character, a glued space included, is one
\* character_width wide.
get_width(span) == Len(span.text) * span.character_width

\* The word units of a text: "\n" and "\t" are units of their own, any
\* other run ends with the space that follows it.
RECURSIVE SplitWords(_, _, _)
SplitWords(text, word, units) ==
    IF text = <<>>
    THEN (IF word = <<>> THEN units ELSE Append(units, word))
    ELSE LET ch == Head(text)
             closed == IF word = <<>> THEN units ELSE Append(units, word)
         IN IF ch \in {LF, HT}
            THEN SplitWords(Tail(text), <<>>, Append(closed, <<ch>>))
            ELSE IF ch = SP
            THEN SplitWords(Tail(text), <<>>, Append(units, Append(word, ch)))
            ELSE SplitWords(Tail(text), Append(word, ch), units)

\* TextSpan::break_into_words: each unit inherits the span's style.
break_into_words(span) ==
    LET units == SplitWords(span.text, <<>>, <<>>)
    IN [i \in 1..Len(units) |-> [span EXCEPT !.text = units[i]]]

\* The pieces of a text: the first of `first` characters, the others of
\* `rest` characters, the last one shorter if the text runs out.
RECURSIVE Pieces(_, _, _)
Pieces(text, first, rest) ==
    IF Len(text) <= first THEN <<text>>
    ELSE <<SubSeq(text, 1, first)>>
         \o Pieces(SubSeq(text, first + 1, Len(text)), rest, rest)

\* TextSpan::break_apart
break_apart(span, first, rest) ==
    LET pieces == Pieces(span.text, first, rest)
    IN [i \in 1..Len(pieces) |-> [span EXCEPT !.text = pieces[i]]]

\* All the word units of the spans of a buffer, in order.
RECURSIVE WordsOf(_)
WordsOf(spans) ==
    IF spans = <<>> THEN <<>>
    ELSE break_into_words(Head(spans)) \o WordsOf(Tail(spans))

\* The tab branch of process_text: x moves to the first tab position that is
\* not before it; positions are the running sum of tabs[i] * character_width.
RECURSIVE TabStop(_, _, _, _)
TabStop(c, cw, i, current_tab_pos) ==
    IF i > Len(c.text.tabs) THEN c
    ELSE IF current_tab_pos >= GetX(c) THEN SetX(c, current_tab_pos)
    ELSE TabStop(c, cw, i + 1, current_tab_pos + c.text.tabs[i] * cw)

\* The state the wrapping loop of process_text carries.
Wrapping(c, current_line, finished) ==
    [ctx |-> c, current_line |-> current_line, finished |-> finished]

\* The loop over the pieces of a word wider than the whole line: each piece
\* joins the current line; every piece but the last closes the line.
RECURSIVE PlaceBroken(_, _)
PlaceBroken(w, broken) ==
    IF broken = <<>> THEN w
    ELSE LET broke == Head(broken)
             line == Append(w.current_line, broke)
         IN IF Len(broken) = 1
            THEN Wrapping(OffsetX(w.ctx, get_width(broke)), line, w.finished)
            ELSE PlaceBroken(Wrapping(newline_for_spans(w.ctx, line), <<>>,
                                      Append(w.finished, line)),
                             Tail(broken))

\* The `while let Some(word) = words.pop()` loop of process_text.
RECURSIVE WrapWords(_, _, _)
WrapWords(w, words, max_width) ==
    IF words = <<>> THEN w
    ELSE LET word == Head(words)
             c == w.ctx
             avail_width == GetAvailableWidth(c)
             word_width == get_width(word)
             closed == newline_for_spans(c, w.current_line)
         IN IF word.text = <<LF>>
            THEN WrapWords(Wrapping(closed, <<>>,
                                    w.finished \o <<w.current_line, <<>>>>),
                           Tail(words), max_width)
            ELSE IF word.text = <<HT>>
            THEN WrapWords(Wrapping(TabStop(c, word.character_width, 1, 0),
                                    w.current_line, w.finished),
                           Tail(words), max_width)
            ELSE IF word_width <= avail_width
            THEN WrapWords(Wrapping(OffsetX(c, word_width),
                                    Append(w.current_line, word), w.finished),
                           Tail(words), max_width)
            ELSE IF word_width > max_width
            THEN WrapWords(PlaceBroken(w,
                               break_apart(word,
                                   avail_width \div word.character_width,
                                   Max(max_width \div word.character_width,
                                       word.character_width))),
                           Tail(words), max_width)
            ELSE WrapWords(Wrapping(OffsetX(closed, word_width), <<word>>,
                                    Append(w.finished, w.current_line)),
                           Tail(words), max_width)

\* Sum of the widths of the spans of a line.
RECURSIVE LineWidth(_)
LineWidth(line) ==
    IF line = <<>> THEN 0 ELSE get_width(Head(line)) + LineWidth(Tail(line))

\* The texts of the spans of a line, joined.
RECURSIVE LineText(_)
LineText(line) ==
    IF line = <<>> THEN <<>> ELSE Head(line).text \o LineText(Tail(line))

\* The two ways the crate is built: u32 subtraction below zero aborts in a
\* debug build and wraps in a release build. A wrapped offset is written as
\* the negative number d that stands for the u32 value 2^32 + d.
Builds == {"debug", "release"}

\* One render_text call as the adapter sees it.
RenderText(line, line_offset, max_height, justification) ==
    [text |-> LineText(line), x_offset |-> line_offset,
     max_height |-> max_height, justify |-> justification]

\* The justification loop of process_text over the finished lines: out
\* collects the render_text calls; an empty line is skipped.
RECURSIVE JustifyLines(_, _, _, _)
JustifyLines(ls, max_width, build, out) ==
    IF ls = <<>> THEN out
    ELSE LET line == Head(ls)
             justification == line[1].justify
             line_width == LineWidth(line)
             line_offset ==
                 IF justification = "Right"
                 THEN max_width - line_width
                 ELSE IF justification = "Center" /\ line_width < max_width
                 THEN (max_width - line_width) \div 2
                 ELSE 0
         IN IF line = <<>>
            THEN JustifyLines(Tail(ls), max_width, build, out)
            ELSE IF justification = "Right" /\ line_width > max_width
                    /\ build = "debug"
            THEN [out EXCEPT !.panic = "overflow"]
            ELSE JustifyLines(Tail(ls), max_width, build,
                     [out EXCEPT !.lines =
                          Append(@, RenderText(line, line_offset,
                                               TallestOf(line, 0),
                                               justification))])

\* The renderer: its context, span buffer, the render_text calls it made,
\* its error buffer, whether it aborted, what get_graphics gave and the
\* render_graphics calls it made.
Renderer(c, buf, calls, errs, why) ==
    [ctx |-> c, span_buffer |-> buf, lines |-> calls, errors |-> errs,
     panic |-> why, gfx |-> "none", graphics_calls |-> 0,
     adapter_calls |-> <<>>, output_buffer |-> <<>>]

\* One call on the OutputRenderer as the adapter sees it: which method, the
\* position of the context handed over, and what is handed over with it.
AdapterCall(method, c, data) ==
    [call |-> method, x |-> GetX(c), y |-> GetY(c), data |-> data]

\* Renderer::collect_text
collect_text(r, text) == [r EXCEPT !.span_buffer = Append(@, text)]

\* The end of process_text: the line still open joins the finished ones and
\* every line goes through the justification loop.
FinishText(r, wrapped, build) ==
    [r EXCEPT
       !.ctx = wrapped.ctx,
       !.span_buffer = <<>>,
       !.lines =
           JustifyLines(IF wrapped.current_line = <<>> THEN wrapped.finished
                        ELSE Append(wrapped.finished, wrapped.current_line),
                        GetWidth(wrapped.ctx), build,
                        [lines |-> r.lines, panic |-> "none"]).lines,
       !.panic =
           JustifyLines(IF wrapped.current_line = <<>> THEN wrapped.finished
                        ELSE Append(wrapped.finished, wrapped.current_line),
                        GetWidth(wrapped.ctx), build,
                        [lines |-> r.lines, panic |-> "none"]).panic]

\* The render_text calls of process_text as the adapter sees them: the
\* lines added to those made before, each with the context after the layout.
TextCalls(laid, before) ==
    [laid EXCEPT !.adapter_calls =
        @ \o [i \in 1..(Len(laid.lines) - before) |->
                 AdapterCall("render_text", laid.ctx, laid.lines[before + i])]]

\* Renderer::process_text: an empty buffer is left alone; otherwise the
\* buffer is emptied, its words wrapped and each line handed to render_text.
process_text(r, build) ==
    IF r.panic # "none" \/ r.span_buffer = <<>> THEN r
    ELSE TextCalls(FinishText(r, WrapWords(Wrapping(r.ctx, <<>>, <<>>),
                                           WordsOf(r.span_buffer),
                                           GetWidth(r.ctx)),
                              build),
                   Len(r.lines))

\* A mutant of log_error: the error is dropped.
LogErrorDropped(r, error_kind) == r

\* Renderer::log_error
log_error(r, error_kind) ==
    IF r.panic # "none" THEN r ELSE [r EXCEPT !.errors = Append(@, error_kind)]

\* A context change inside the renderer, skipped once it has aborted.
WithContext(r, c) == IF r.panic # "none" THEN r ELSE [r EXCEPT !.ctx = c]

\* The loop of process_barcode over the bars: a bar that does not fit in the
\* available width is skipped without advancing x.
RECURSIVE PlaceBars(_, _, _)
PlaceBars(c, points, point_width) ==
    IF points = <<>> THEN c
    ELSE IF Head(points) > 0 /\ GetAvailableWidth(c) < point_width
    THEN PlaceBars(c, Tail(points), point_width)
    ELSE PlaceBars(OffsetX(c, point_width), Tail(points), point_width)

\* The rectangles of the bars that PlaceBars places, in order.
RECURSIVE BarRectangles(_, _, _, _)
BarRectangles(c, points, point_width, point_height) ==
    IF points = <<>> THEN <<>>
    ELSE IF Head(points) > 0 /\ GetAvailableWidth(c) < point_width
    THEN BarRectangles(c, Tail(points), point_width, point_height)
    ELSE (IF Head(points) > 0
          THEN <<[x |-> GetX(c), y |-> GetY(c),
                  w |-> point_width, h |-> point_height]>>
          ELSE <<>>)
         \o BarRectangles(OffsetX(c, point_width), Tail(points),
                          point_width, point_height)

\* The render_graphics call of process_barcode: the rectangles of the bars,
\* with the context as the loop over the bars left it.
BarsCall(r, start, barcode) ==
    Append(r.adapter_calls,
           AdapterCall("render_graphics",
                       PlaceBars(start, barcode.points, barcode.point_width),
                       BarRectangles(start, barcode.points,
                                     barcode.point_width,
                                     barcode.point_height)))

\* The newline after the human readable text.
NewlineAfter(laid) == WithContext(laid, Newline(laid.ctx, 1))

\* The human readable text of a barcode: collected, laid out at once and
\* followed by a newline.
HriText(r, barcode, build) ==
    NewlineAfter(process_text(collect_text(r, barcode.text), build))

\* process_barcode, first part: the text above the bars.
TextAbove(r, barcode, build) ==
    IF r.ctx.barcode.human_readable \in {"Above", "Both"}
    THEN HriText(r, barcode, build)
    ELSE r

\* process_barcode, second part: x goes to the justified start, the bars are
\* placed and handed to render_graphics, x is reset and y moves below the bars.
DrawBars(r, barcode) ==
    IF r.panic # "none" THEN r
    ELSE [r EXCEPT
            !.ctx = OffsetY(ResetX(PlaceBars(
                        SetX(r.ctx,
                             calculate_justification(r.ctx,
                                 Len(barcode.points) * barcode.point_width)),
                        barcode.points, barcode.point_width)),
                    barcode.point_height),
            !.graphics_calls = @ + 1,
            !.adapter_calls =
                BarsCall(r,
                         SetX(r.ctx,
                              calculate_justification(r.ctx,
                                  Len(barcode.points) * barcode.point_width)),
                         barcode)]

\* process_barcode, last part: the text below the bars.
TextBelow(r, barcode, build) ==
    IF r.ctx.barcode.human_readable \in {"Below", "Both"}
    THEN HriText(WithContext(r, OffsetY(r.ctx, 8)), barcode, build)
    ELSE r

\* A mutant of process_barcode: the bars are drawn first and both texts
\* follow them.
ProcessBarcodeBarsFirst(r, barcode, build) ==
    TextBelow(TextAbove(DrawBars(r, barcode), barcode, build), barcode, build)

\* Renderer::process_barcode
process_barcode(r, barcode, build) ==
    TextBelow(DrawBars(TextAbove(r, barcode, build), barcode), barcode, build)

\* The body of the loop of process_code_2d once the row start is settled:
\* a nonzero module that does not fit is skipped, and neither x nor the
\* counter i moves; any other module moves x and i, a nonzero one after its
\* rectangle is pushed. placed.drawn keeps, for each rectangle, the index in
\* points of the module it was pushed for.
RECURSIVE PlaceModules(_, _, _, _, _, _)
PlaceModule(at, code_2d, origin_x, ps, i, placed) ==
    IF Head(ps) > 0 /\ GetAvailableWidth(at) < code_2d.point_width
    THEN PlaceModules(at, code_2d, origin_x, Tail(ps), i, placed)
    ELSE PlaceModules(OffsetX(at, code_2d.point_width), code_2d, origin_x,
             Tail(ps), i + 1,
             IF Head(ps) > 0
             THEN [placed EXCEPT
                     !.graphics =
                         Append(@, [x |-> GetX(at), y |-> GetY(at),
                                    w |-> code_2d.point_width,
                                    h |-> code_2d.point_height]),
                     !.drawn = Append(@, Len(code_2d.points) - Len(ps))]
             ELSE placed)

\* The loop of process_code_2d over the modules: when the counter i says a
\* row begins, x goes back to the origin and y moves down by a module.
PlaceModules(c, code_2d, origin_x, ps, i, placed) ==
    IF ps = <<>> THEN [placed EXCEPT !.ctx = c]
    ELSE PlaceModule(IF i # 1 /\ i % code_2d.width = 1
                     THEN OffsetY(SetX(c, origin_x), code_2d.point_height)
                     ELSE c,
                     code_2d, origin_x, ps, i, placed)

\* process_code_2d up to the end of its loop, from the justified origin.
Code2DPlaced(c, code_2d, origin_x) ==
    PlaceModules(SetX(c, origin_x), code_2d, origin_x, code_2d.points, 1,
                 [ctx |-> c, graphics |-> <<>>, drawn |-> <<>>])

\* The end of process_code_2d: x is reset and the rectangles are handed to
\* render_graphics.
Code2DCall(r, placed) ==
    [r EXCEPT
       !.ctx = ResetX(placed.ctx),
       !.graphics_calls = @ + 1,
       !.adapter_calls =
           Append(@, AdapterCall("render_graphics", ResetX(placed.ctx),
                                 placed.graphics))]

\* Renderer::process_code_2d
process_code_2d(r, code_2d) ==
    IF r.panic # "none" THEN r
    ELSE Code2DCall(r,
             Code2DPlaced(r.ctx, code_2d,
                 calculate_justification(r.ctx,
                     code_2d.width * code_2d.point_width)))

\* The BeginPrint arm after its newline: the adapter's begin_render.
BeginRender(r) ==
    IF r.panic # "none" THEN r
    ELSE [r EXCEPT !.adapter_calls =
             Append(@, AdapterCall("begin_render", r.ctx, <<>>))]

\* The EndPrint arm: the adapter reports no errors of its own; what its
\* end_render returns joins the output buffer. The output stands for what
\* the adapter was handed up to there.
EndRender(r) ==
    IF r.panic # "none" THEN r
    ELSE [r EXCEPT
            !.output_buffer = Append(@, r.adapter_calls),
            !.adapter_calls = Append(@, AdapterCall("end_render", r.ctx, <<>>))]

\* The arms of process_device_commands for the device commands used here.
process_device_command(r, device_command) ==
    IF device_command.name = "FeedLine"
    THEN WithContext(r, Newline(r.ctx, device_command.arg))
    ELSE IF device_command.name = "Justify"
    THEN WithContext(r, [r.ctx EXCEPT !.text.justify = device_command.arg])
    ELSE IF device_command.name = "BeginPrint"
    THEN BeginRender(WithContext(r, Newline(r.ctx, 2)))
    ELSE IF device_command.name = "EndPrint"
    THEN EndRender(r)
    ELSE r

\* The head of the loop of process_device_commands: the adapter is handed
\* the device command with the context as it is before the command acts.
DeviceCall(r, device_command) ==
    IF r.panic # "none" THEN r
    ELSE [r EXCEPT !.adapter_calls =
             Append(@, AdapterCall("device_command", r.ctx, device_command))]

----------------------------------------------------------------------------
(* The commands the renderer is driven with, one or two of each kind *)

CommandTypes ==
    {"Unknown", "Text", "Graphics", "Context", "ContextControl", "Control",
     "TextStyle", "Subcommand"}

RenderCommand(k, name, a) == [kind |-> k, name |-> name, arg |-> a]

\* The texts of the Text commands.
Texts ==
    { <<"a", "b", "c", "d", "e", "f", "g", "h", "i", "j", SP, "k", "l", "m", "n">>,
      <<"o", "k", LF>>,
      <<HT, "x">> }

\* The payload of the barcode command.
BarcodePayload == <<"1", "2">>

\* CommandHandler::get_text of the text handler.
get_text(command, c) == TextSpan(command.arg, c)

\* CommandHandler::apply_context: GS H stores where the human readable text
\* goes, ESC @ resets the context; the other commands leave the context alone.
apply_context(command, c) ==
    IF command.name = "set_hri" THEN [c EXCEPT !.barcode.human_readable = command.arg]
    ELSE IF command.name = "initialize" THEN Reset(c)
    ELSE c

\* CommandHandler::get_device_command: line feed issues FeedLine(1), ESC a
\* issues Justify; the other commands issue nothing.
get_device_command(command, c) ==
    IF command.name = "line_feed" THEN <<[name |-> "FeedLine", arg |-> 1]>>
    ELSE IF command.name = "justify"
    THEN <<[name |-> "Justify", arg |-> command.arg]>>
    ELSE IF command.name = "begin_print"
    THEN <<[name |-> "BeginPrint", arg |-> 0]>>
    ELSE IF command.name = "end_print"
    THEN <<[name |-> "EndPrint", arg |-> 0]>>
    ELSE <<>>

\* BarcodeHandler::get_graphics, as far as the renderer reads its result: a
\* barcode with its bars, sizes and human readable text, or an error.
get_graphics(command, c) ==
    IF command.name = "barcode"
    THEN [gfx |-> "Barcode",
          points |-> <<1, 0, 1>>,
          point_width |-> c.barcode.width,
          point_height |-> c.barcode.height,
          text |-> TextSpan(command.arg, c)]
    ELSE [gfx |-> "Error"]

\* Renderer::process_device_commands
RECURSIVE process_device_commands(_, _)
process_device_commands(r, device_commands) ==
    IF device_commands = <<>> THEN r
    ELSE process_device_commands(
             process_device_command(DeviceCall(r, Head(device_commands)),
                                    Head(device_commands)),
             Tail(device_commands))

\* The device commands of a command, issued on the renderer.
IssueDeviceCommands(r, command) ==
    process_device_commands(r, get_device_command(command, r.ctx))

\* The context of the renderer after apply_context of a command.
ApplyContext(r, command) == WithContext(r, apply_context(command, r.ctx))

\* The Graphics arm after process_text: the graphics are fetched and drawn,
\* unless process_text aborted.
DrawGraphics(r, graphics, build) ==
    IF r.panic # "none" THEN r
    ELSE IF graphics.gfx = "Error"
    THEN log_error([r EXCEPT !.gfx = "Error"], "GraphicsError")
    ELSE process_barcode([r EXCEPT !.gfx = "Barcode"], graphics, build)

\* The Graphics arm of process_command on a renderer whose text is laid out.
GraphicsArm(flushed, command, build) ==
    IssueDeviceCommands(
        DrawGraphics(flushed, get_graphics(command, flushed.ctx), build),
        command)

\* A mutant of process_command: a Context command is applied without laying
\* out the collected text first.
ProcessCommandContextUnflushed(r, command, build) ==
    IF command.kind = "Unknown"
    THEN log_error(process_text(r, build), "UnknownCommand")
    ELSE IF command.kind = "Text"
    THEN collect_text(r, get_text(command, r.ctx))
    ELSE IF command.kind = "Graphics"
    THEN GraphicsArm(process_text(r, build), command, build)
    ELSE IF command.kind = "Context"
    THEN ApplyContext(r, command)
    ELSE IF command.kind = "ContextControl"
    THEN IssueDeviceCommands(ApplyContext(process_text(r, build), command),
                             command)
    ELSE IF command.kind = "Control"
    THEN process_device_commands(process_text(r, build),
                                 get_device_command(command, r.ctx))
    ELSE IF command.kind = "TextStyle"
    THEN IssueDeviceCommands(ApplyContext(r, command), command)
    ELSE r

\* A mutant of process_command: a Control command issues its device commands
\* before the collected text is laid out.
ProcessCommandControlFeedsFirst(r, command, build) ==
    IF command.kind = "Unknown"
    THEN log_error(process_text(r, build), "UnknownCommand")
    ELSE IF command.kind = "Text"
    THEN collect_text(r, get_text(command, r.ctx))
    ELSE IF command.kind = "Graphics"
    THEN GraphicsArm(process_text(r, build), command, build)
    ELSE IF command.kind = "Context"
    THEN ApplyContext(process_text(r, build), command)
    ELSE IF command.kind = "ContextControl"
    THEN IssueDeviceCommands(ApplyContext(process_text(r, build), command),
                             command)
    ELSE IF command.kind = "Control"
    THEN process_text(process_device_commands(r,
                          get_device_command(command, r.ctx)),
                      build)
    ELSE IF command.kind = "TextStyle"
    THEN IssueDeviceCommands(ApplyContext(r, command), command)
    ELSE r

\* Renderer::process_command
process_command(r, command, build) ==
    IF command.kind = "Unknown"
    THEN log_error(process_text(r, build), "UnknownCommand")
    ELSE IF command.kind = "Text"
    THEN collect_text(r, get_text(command, r.ctx))
    ELSE IF command.kind = "Graphics"
    THEN GraphicsArm(process_text(r, build), command, build)
    ELSE IF command.kind = "Context"
    THEN ApplyContext(process_text(r, build), command)
    ELSE IF command.kind = "ContextControl"
    THEN IssueDeviceCommands(ApplyContext(process_text(r, build), command),
                             command)
    ELSE IF command.kind = "Control"
    THEN process_device_commands(process_text(r, build),
                                 get_device_command(command, r.ctx))
    ELSE IF command.kind = "TextStyle"
    THEN IssueDeviceCommands(ApplyContext(r, command), command)
    ELSE r

\* The render widths the renderer starts with: ten characters, and the
\* factory width.
RenderWidths ==
    { 10 * DefaultContext.text.character_width,
      DefaultContext.graphics.render_area.w }

RenderInit ==
    /\ \E w \in RenderWidths :
          ctx = [NewContext EXCEPT !.graphics.render_area.w = w,
                                   !.graphics.render_area.x = 0]
    /\ panic = "none"
    /\ lastOp = "new"
    /\ resets = 0
    /\ rotation = "R0"
    /\ steps = 0
    /\ trail = <<>>
    /\ swaps = 0
    /\ span_buffer = <<>>
    /\ lines = <<>>
    /\ lastKind = "none"
    /\ errors = <<>>
    /\ gfx = "none"
    /\ graphics_calls = 0
    /\ adapter_calls = <<>>
    /\ output_buffer = <<>>

\* One command through process_command, in either build.
RenderStep(command) ==
    /\ panic = "none"
    /\ steps < MaxSteps
    /\ \E build \in Builds :
          \E r \in { process_command(
                        Renderer(ctx, span_buffer, <<>>, errors, "none"),
                        command, build) } :
             /\ ctx' = r.ctx
             /\ span_buffer' = r.span_buffer
             /\ lines' = r.lines
             /\ errors' = r.errors
             /\ gfx' = r.gfx
             /\ graphics_calls' = r.graphics_calls
             /\ adapter_calls' = r.adapter_calls
             /\ output_buffer' = r.output_buffer
             /\ panic' = r.panic
    /\ steps' = steps + 1
    /\ UNCHANGED <<lastOp, resets, rotation, trail, swaps>>
    /\ UNCHANGED <<parserVars, pureVars>>

ProcessUnknown ==
    /\ lastKind' = "Unknown"
    /\ RenderStep(RenderCommand("Unknown", "unknown", 0))

ProcessText ==
    \E t \in Texts :
       /\ lastKind' = "Text"
       /\ RenderStep(RenderCommand("Text", "text", t))

ProcessGraphics ==
    \E name \in {"barcode", "bad_barcode"} :
       /\ lastKind' = "Graphics"
       /\ RenderStep(RenderCommand("Graphics", name, BarcodePayload))

ProcessContext ==
    \E h \in {"None", "Above", "Below", "Both"} :
       /\ lastKind' = "Context"
       /\ RenderStep(RenderCommand("Context", "set_hri", h))

ProcessContextControl ==
    /\ lastKind' = "ContextControl"
    /\ RenderStep(RenderCommand("ContextControl", "initialize", 0))

ProcessControl ==
    /\ lastKind' = "Control"
    /\ RenderStep(RenderCommand("Control", "line_feed", 0))

ProcessTextStyle ==
    \E j \in {"Right", "Center"} :
       /\ lastKind' = "TextStyle"
       /\ RenderStep(RenderCommand("TextStyle", "justify", j))

ProcessSubcommand ==
    /\ lastKind' = "Subcommand"
    /\ RenderStep(RenderCommand("Subcommand", "subcommand", 0))

\* The loop of render over the commands of the stream.
RECURSIVE ProcessCommands(_, _, _)
ProcessCommands(r, commands, build) ==
    IF commands = <<>> THEN r
    ELSE ProcessCommands(process_command(r, Head(commands), build),
                         Tail(commands), build)

\* Renderer::render up to the end of its loop: the commands parse_esc_pos
\* gives for a stream are those of its bytes between the synthetic Begin
\* Print and End Print.
render(r, document, build) ==
    ProcessCommands(r,
        <<RenderCommand("Control", "begin_print", 0)>> \o document
            \o <<RenderCommand("Control", "end_print", 0)>>,
        build)

\* The byte streams rendered, and the commands each parses to.
Documents ==
    {"empty", "text", "tab", "right", "barcode", "bad_barcode", "unknown"}

CommandsOf(document) ==
    IF document = "text"
    THEN <<RenderCommand("Text", "text", <<"o", "k", LF>>)>>
    ELSE IF document = "tab"
    THEN <<RenderCommand("Text", "text", <<HT, "x">>)>>
    ELSE IF document = "right"
    THEN <<RenderCommand("TextStyle", "justify", "Right")>>
    ELSE IF document = "barcode"
    THEN <<RenderCommand("Context", "set_hri", "Below"),
           RenderCommand("Graphics", "barcode", BarcodePayload)>>
    ELSE IF document = "bad_barcode"
    THEN <<RenderCommand("Graphics", "bad_barcode", BarcodePayload)>>
    ELSE IF document = "unknown"
    THEN <<RenderCommand("Unknown", "unknown", 0)>>
    ELSE <<>>

\* A Renderer as Renderer::new makes it.
NewRenderer == Renderer(NewContext, <<>>, <<>>, <<>>, "none")

\* The RenderOutput that render returns.
RenderOutput(done) == [output |-> done.output_buffer, errors |-> done.errors]

\* One call of Renderer::render on the renderer as the calls before left
\* it: the stream is processed, the output and error buffers are swapped
\* out and returned. res holds the RenderOutput, adapter_calls the calls
\* made on the adapter, trail the streams rendered so far.
RenderDocument ==
    /\ panic = "none"
    /\ steps < MaxRenders
    /\ \E document \in Documents, build \in Builds :
          \E done \in { render([Renderer(ctx, span_buffer, <<>>, errors, "none")
                                   EXCEPT !.output_buffer = output_buffer],
                                CommandsOf(document), build) } :
             /\ ctx' = done.ctx
             /\ span_buffer' = done.span_buffer
             /\ lines' = done.lines
             /\ gfx' = done.gfx
             /\ graphics_calls' = done.graphics_calls
             /\ adapter_calls' = done.adapter_calls
             /\ panic' = done.panic
             /\ res' = <<RenderOutput(done)>>
             /\ output_buffer' =
                   IF done.panic = "none" THEN <<>> ELSE done.output_buffer
             /\ errors' = IF done.panic = "none" THEN <<>> ELSE done.errors
             /\ trail' = Append(trail, document)
    /\ lastKind' = "render"
    /\ steps' = steps + 1
    /\ UNCHANGED <<lastOp, resets, rotation, swaps>>
    /\ UNCHANGED <<parserVars, fn, arg>>

----------------------------------------------------------------------------
(* Images: thermal_parser/src/graphics.rs *)

\* The byte values pixel data is drawn from.
PixelBytes == {128, 255}

\* The first header byte: 48 monochrome, 52 multiple tone, anything else unknown.
ToneBytes == {48, 52, 0}

\* The stretch bytes (bx, by) of the header.
Stretches == { <<1, 1>>, <<2, 1>>, <<1, 2>> }

\* The sequences over S of at most n elements.
SeqsUpTo(S, n) == UNION { [1..k -> S] : k \in 0..n }

\* The inputs of from_raster_data: the eight header bytes a, bx, by, c, x1,
\* x2, y1, y2 and the pixel data, and one input shorter than a header.
RasterData ==
    { <<a, s[1], s[2], 1, x1, 0, y1, 0>> \o px :
          a \in ToneBytes, s \in Stretches, x1 \in 0..MaxWidth,
          y1 \in 0..MaxHeight, px \in SeqsUpTo(PixelBytes, MaxPixelBytes) }
    \cup { <<48>> }

\* One row of scale_pixels: every pixel twice when scale_x.
ScaleRow(row, scale_x) ==
    IF scale_x THEN [i \in 1..(2 * Len(row)) |-> row[(i + 1) \div 2]] ELSE row

\* The loop over the rows of scale_pixels, from row y on.
RECURSIVE ScaleRows(_, _, _, _, _, _)
ScaleRows(bytes, original_width, original_height, scale_x, scale_y, y) ==
    IF y >= original_height THEN <<>>
    ELSE LET row == SubSeq(bytes, y * original_width + 1,
                           (y + 1) * original_width)
             scaled_row == ScaleRow(row, scale_x)
         IN (IF scale_y THEN scaled_row \o scaled_row ELSE scaled_row)
            \o ScaleRows(bytes, original_width, original_height,
                         scale_x, scale_y, y + 1)

\* scale_pixels: a row that reaches beyond the data aborts (slice index out
\* of range).
scale_pixels(bytes, original_width, original_height, scale_x, scale_y) ==
    IF original_height > 0 /\ original_height * original_width > Len(bytes)
    THEN [panic |-> TRUE, w |-> 0, h |-> 0, pixels |-> <<>>]
    ELSE [panic |-> FALSE,
          w |-> IF scale_x THEN original_width * 2 ELSE original_width,
          h |-> IF scale_y THEN original_height * 2 ELSE original_height,
          pixels |-> ScaleRows(bytes, original_width, original_height,
                               scale_x, scale_y, 0)]

\* The outcome of a constructor: an image, None, or an abort.
NoImage == [made |-> "None"]

\* Image::from_raster_data
from_raster_data(data) ==
    IF Len(data) < 8 THEN NoImage
    ELSE LET a == data[1]
             bx == data[2]
             by == data[3]
             width == data[5] + data[6] * 256
             height == data[7] + data[8] * 256
             pixel_type == IF a = 48 THEN "Monochrome"
                           ELSE IF a = 52 THEN "MultipleTone"
                           ELSE "Unknown"
             rest == SubSeq(data, 9, Len(data))
             scaled == scale_pixels(rest, width, height, bx > 1, by > 1)
         IN IF bx > 1 \/ by > 1
            THEN IF scaled.panic THEN [made |-> "Panic"]
                 ELSE [made |-> "Image", pixels |-> scaled.pixels,
                       w |-> scaled.w, h |-> scaled.h,
                       pixel_type |-> pixel_type, stretch |-> <<bx, by>>]
            ELSE [made |-> "Image", pixels |-> rest, w |-> width,
                  h |-> height, pixel_type |-> pixel_type,
                  stretch |-> <<bx, by>>]

\* byte & 1 << n != 0
BitSet(byte, n) == (byte \div (2 ^ n)) % 2 = 1

\* A mutant of GrayOf: a set bit is white.
GrayOfInverted(byte, n) == IF BitSet(byte, n) THEN 255 ELSE 0

\* One pixel of as_grayscale: 0 where the bit is set, 255 otherwise.
GrayOf(byte, n) == IF BitSet(byte, n) THEN 0 ELSE 255

\* The loop over the bytes of as_grayscale: col counts the columns of the
\* row so far; the byte that reaches the width gives `padding` pixels.
RECURSIVE UnpackBytes(_, _, _, _)
UnpackBytes(pixels, w, padding, col) ==
    IF pixels = <<>> THEN <<>>
    ELSE IF col + 8 >= w
    THEN [n \in 1..padding |-> GrayOf(Head(pixels), 8 - n)]
         \o UnpackBytes(Tail(pixels), w, padding, 0)
    ELSE [n \in 1..8 |-> GrayOf(Head(pixels), 8 - n)]
         \o UnpackBytes(Tail(pixels), w, padding, col + 8)

\* Image::as_grayscale
as_grayscale(image) ==
    IF image.pixel_type = "MonochromeByte" THEN image.pixels
    ELSE UnpackBytes(image.pixels, image.w,
                     IF image.w % 8 = 0 THEN 8 ELSE image.w % 8, 0)

\* A mutant of rotate_90_clockwise: the data is left as it is.
RotateNone(data, width, height) == data

\* rotate_90_clockwise on width * height bytes: the byte at (x, y) goes to
\* row x, column height - 1 - y of rows that are height long. Written from
\* the destination: index d holds the byte of x = d / height and
\* y = height - 1 - d % height.
rotate_90_clockwise(data, width, height) ==
    [d \in 1..Len(data) |->
        data[(height - 1 - ((d - 1) % height)) * width
             + ((d - 1) \div height) + 1]]

\* flip_right_to_left on width * height bytes: the byte at (x, y) goes to
\* column width - 1 - x of the same row.
flip_right_to_left(data, width, height) ==
    [d \in 1..Len(data) |->
        data[((d - 1) \div width) * width
             + (width - 1 - ((d - 1) % width)) + 1]]

\* The end of column_to_raster: the flipped raster, scaled when a stretch
\* asks for it.
Stretched(flip, stretch, final_width, final_height) ==
    IF stretch[1] > 1 \/ stretch[2] > 1
    THEN scale_pixels(flip, final_width, final_height,
                      stretch[1] > 1, stretch[2] > 1)
    ELSE [panic |-> FALSE, w |-> final_width, h |-> final_height,
          pixels |-> flip]

\* column_to_raster: the columns are unpacked as rows final_height long (the
\* loop is the one of as_grayscale), rotated and flipped.
column_to_raster(pixels, stretch, final_width, final_height) ==
    Stretched(
        flip_right_to_left(
            rotate_90_clockwise(
                UnpackBytes(pixels, final_height,
                            IF final_height % 8 = 0 THEN 8
                            ELSE final_height % 8, 0),
                final_height, final_width),
            final_width, final_height),
        stretch, final_width, final_height)

\* The column data handed to column_to_raster: w columns of the bytes that
\* hold h dots each, with a stretch.
ColumnData ==
    UNION { [w : {w}, h : {h}, stretch : Stretches,
             pixels : [1..(w * ((h + 7) \div 8)) -> {1, 128, 165}]] :
               w \in 1..MaxColumns, h \in 1..MaxColumnHeight }

\* Image::from_raster_data_with_ref: the key and the image of a payload
\* a, kc1, kc2, b, x1, x2, y1, y2, c, pixels. Fewer than eight bytes give
\* None; the ninth byte is read with get(8).unwrap(), which aborts on a
\* payload of exactly eight.
from_raster_data_with_ref(data, storage) ==
    IF Len(data) < 8 THEN NoImage
    ELSE IF Len(data) < 9 THEN [made |-> "Panic"]
    ELSE [made |-> "Image",
          ref |-> <<data[2], data[3], storage>>,
          image |-> [pixels |-> SubSeq(data, 10, Len(data)),
                     w |-> data[5] + data[6] * 256,
                     h |-> data[7] + data[8] * 256,
                     pixel_type |-> IF data[1] = 48 THEN "Monochrome"
                                    ELSE IF data[1] = 52 THEN "MultipleTone"
                                    ELSE "Unknown",
                     stretch |-> <<1, 1>>]]

\* HashMap::insert
Insert(map, key, value) ==
    [k \in DOMAIN map \cup {key} |-> IF k = key THEN value ELSE map[k]]

\* The Some arm of the define-raster handler: the flow becomes Block and
\* the image is stored under its key.
StoreImage(c, made) ==
    [c EXCEPT !.graphics.stored_graphics =
        Insert(@, made.ref,
               [pixels |-> made.image.pixels, w |-> made.image.w,
                h |-> made.image.h, pixel_type |-> made.image.pixel_type,
                stretch |-> made.image.stretch, flow |-> "Block"])]

\* A mutant of the define-raster handler: an image already stored under the
\* key is kept.
DefineRasterKeepsFirst(data, c) ==
    IF Len(data) < 8 THEN Done(c)
    ELSE IF Len(data) < 9 THEN Abort(c, "unwrap_none")
    ELSE IF <<data[2], data[3], "Ram">> \in DOMAIN c.graphics.stored_graphics
    THEN Done(c)
    ELSE Done(StoreImage(c, from_raster_data_with_ref(data, "Ram")))

\* Handler::apply_context of the define-raster subcommand.
define_raster_apply_context(data, c) ==
    IF from_raster_data_with_ref(data, "Ram").made = "Image"
    THEN Done(StoreImage(c, from_raster_data_with_ref(data, "Ram")))
    ELSE IF from_raster_data_with_ref(data, "Ram").made = "Panic"
    THEN Abort(c, "unwrap_none")
    ELSE Done(c)

\* The payloads handed to the define-raster subcommand: two images of eight
\* dots under each of two keys, and the first bytes of such a payload, from
\* none to eight of them.
DefinePayloads ==
    { <<48, kc1, 32, 1, 8, 0, 1, 0, 49>> \o px :
         kc1 \in {32, 33}, px \in { <<128>>, <<255>> } }
    \cup { SubSeq(<<48, 32, 32, 1, 8, 0, 1, 0>>, 1, n) : n \in 0..8 }

\* One define-raster subcommand is applied to the context; trail keeps the
\* payloads applied so far.
DefineRaster ==
    /\ panic = "none"
    /\ steps < MaxDefines
    /\ \E data \in DefinePayloads :
          /\ ctx' = define_raster_apply_context(data, ctx).ctx
          /\ panic' = define_raster_apply_context(data, ctx).panic
          /\ trail' = Append(trail, data)
    /\ lastOp' = "define_raster"
    /\ steps' = steps + 1
    /\ UNCHANGED <<resets, rotation, swaps>>
    /\ UNCHANGED <<parserVars, pureVars, renderVars>>

ImageInit ==
    /\ res = <<>>
    /\ \/ /\ fn = "from_raster_data"
          /\ arg \in RasterData
       \/ /\ fn = "column_to_raster"
          /\ arg \in ColumnData

\* The constructor runs on the data: arg becomes its outcome.
FromRasterData ==
    /\ fn = "from_raster_data"
    /\ fn' = "as_grayscale"
    /\ arg' = from_raster_data(arg)
    /\ UNCHANGED res
    /\ UNCHANGED <<parserVars, ctxVars, renderVars>>

\* as_grayscale runs on the image the constructor made.
AsGrayscale ==
    /\ fn = "as_grayscale"
    /\ arg.made = "Image"
    /\ res = <<>>
    /\ res' = <<as_grayscale(arg)>>
    /\ UNCHANGED <<fn, arg>>
    /\ UNCHANGED <<parserVars, ctxVars, renderVars>>

\* column_to_raster runs on the column data.
ColumnToRaster ==
    /\ fn = "column_to_raster"
    /\ res = <<>>
    /\ res' = <<column_to_raster(arg.pixels, arg.stretch, arg.w, arg.h)>>
    /\ UNCHANGED <<fn, arg>>
    /\ UNCHANGED <<parserVars, ctxVars, renderVars>>

----------------------------------------------------------------------------
(* Pure helpers applied to drawn inputs *)

BarcodeTypes ==
    {"UpcA", "UpcE", "Ean13", "Ean8", "Code39", "Itf", "Nw7Codabar", "Code93",
     "Code128", "Gs1128", "Gs1DatabarOmni", "Gs1DatabarTruncated",
     "Gs1DatabarLimited", "Gs1DatabarExpanded", "Code128Auto", "Unknown"}

\* A mutant of validate_data_length: Codabar and ITF accept two characters.
ValidateCodabarOffByOne(kind, length) ==
    IF length > 255 THEN FALSE
    ELSE CASE kind = "UpcA" -> length = 11 \/ length = 12
           [] kind = "UpcE" -> length \in {6, 7, 8, 11, 12}
           [] kind = "Ean13" -> length = 12 \/ length = 13
           [] kind = "Ean8" -> length = 7 \/ length = 8
           [] kind = "Code39" -> length > 0
           [] kind \in {"Nw7Codabar", "Itf"} -> length >= 2
           [] kind \in {"Gs1DatabarLimited", "Gs1DatabarTruncated",
                        "Gs1DatabarOmni"} -> length = 13
           [] kind \in {"Code128", "Gs1128", "Gs1DatabarExpanded"} -> length > 1
           [] kind = "Code128Auto" -> length > 0
           [] OTHER -> length > 0

\* BarcodeHandler::validate_data_length
validate_data_length(kind, length) ==
    IF length > 255 THEN FALSE
    ELSE CASE kind = "UpcA" -> length = 11 \/ length = 12
           [] kind = "UpcE" -> length \in {6, 7, 8, 11, 12}
           [] kind = "Ean13" -> length = 12 \/ length = 13
           [] kind = "Ean8" -> length = 7 \/ length = 8
           [] kind = "Code39" -> length > 0
           [] kind \in {"Nw7Codabar", "Itf"} -> length > 2
           [] kind \in {"Gs1DatabarLimited", "Gs1DatabarTruncated",
                        "Gs1DatabarOmni"} -> length = 13
           [] kind \in {"Code128", "Gs1128", "Gs1DatabarExpanded"} -> length > 1
           [] kind = "Code128Auto" -> length > 0
           [] OTHER -> length > 0

\* The symbologies get_graphics has an encoder for.
EncodedTypes ==
    {"Code128", "Nw7Codabar", "Code39", "Code93", "Ean13", "UpcA", "UpcE",
     "Ean8", "Itf"}

\* A mutant of BarcodeGraphics: the payload length is not validated and
\* every symbology goes to an encoder.
BarcodeGraphicsUnvalidated(c) == {"Barcode", "Error"}

\* BarcodeHandler::get_graphics, as the set of graphics it may return: an
\* invalid length and a symbology without an encoder give an error; whether
\* an encoder accepts the payload is up to the encoder.
BarcodeGraphics(c) ==
    IF ~validate_data_length(c.h.kind, Len(c.data)) THEN {"Error"}
    ELSE IF c.h.kind \in EncodedTypes THEN {"Barcode", "Error"}
    ELSE {"Error"}

\* The characters Code128 payloads are drawn from.
CodeChars == {"{", "A", "B", "C", "x"}

\* The Code128 payloads of up to MaxCodeLen characters.
Code128Payloads == UNION { [1..n -> CodeChars] : n \in 0..MaxCodeLen }

\* str::replace for a pattern of two characters: every occurrence found
\* scanning from the left, none overlapping the one before.
RECURSIVE Replace(_, _, _)
Replace(text, from, to) ==
    IF Len(text) < 2 THEN text
    ELSE IF SubSeq(text, 1, 2) = from
    THEN to \o Replace(SubSeq(text, 3, Len(text)), from, to)
    ELSE <<text[1]>> \o Replace(Tail(text), from, to)

\* The characters the encoder takes as code-set switches (U+00C0, U+0181,
\* U+0106), each written here as one element.
SentinelA == "U+00C0"
SentinelB == "U+0181"
SentinelC == "U+0106"

\* BarcodeHandler::get_graphics, Code128: the encoder input and the human
\* readable text of a payload, or an error for a payload of invalid length.
Code128Texts(data) ==
    IF ~validate_data_length("Code128", Len(data))
    THEN [ok |-> FALSE, adjusted_data |-> <<>>, hri_data |-> <<>>]
    ELSE [ok |-> TRUE,
          adjusted_data |->
              Replace(Replace(Replace(data, <<"{", "A">>, <<SentinelA>>),
                              <<"{", "B">>, <<SentinelB>>),
                      <<"{", "C">>, <<SentinelC>>),
          hri_data |->
              Replace(Replace(Replace(data, <<"{", "A">>, <<>>),
                              <<"{", "B">>, <<>>),
                      <<"{", "C">>, <<>>)]

\* The sequences of print directions of up to MaxWalk changes.
DirectionSeqs == UNION { [1..n -> Directions] : n \in 1..(MaxWalk + 1) }

\* The rotations calculate_directional_rotation returns along a sequence of
\* directions, one for each pair of consecutive directions.
RotationDeltas(dirs) ==
    [i \in 1..(Len(dirs) - 1) |->
        calculate_directional_rotation(dirs[i], dirs[i + 1])]

\* Every value of a byte.
Bytes == 0..255

\* The colours a context may hold: the factory ones, and the factory ones
\* with colour 1 and colour 2 exchanged.
ColorSchemes ==
    { DefaultRenderColors,
      [DefaultRenderColors EXCEPT !.color_1 = DefaultRenderColors.color_2,
                                  !.color_2 = DefaultRenderColors.color_1] }

\* A raster bit image command whose header gave the scaling byte, one width
\* byte and height 1.
RasterCommandScaled(scaling) ==
    [NewCommand(CHOOSE d \in EscPosCommands : d.handler = "raster")
        EXCEPT !.h = [NewRasterHandler EXCEPT !.scaling = scaling,
                                              !.width = 8, !.height = 1,
                                              !.capacity = 1,
                                              !.params = <<scaling, 1, 0, 1, 0>>,
                                              !.accept_data = TRUE],
               !.data = <<255>>]

\* The rows of modules handed to the renderer: dark (1) and light (0).
ModuleRows == SeqsUpTo({0, 1}, MaxModules)

\* The contexts graphics are drawn in: in standard mode and in page mode
\* (with the page area at x = 0 and further right), in a narrow and a wider
\* render area, with each justification.
DrawingContexts ==
    { [NewContext EXCEPT !.graphics.render_area.w = w, !.text.justify = j] :
         w \in {2, 5}, j \in {"Left", "Center", "Right"} }
    \cup
    { [NewContext EXCEPT !.page_mode.enabled = TRUE,
                         !.page_mode.page_area = Area(b, 7, w, 40),
                         !.page_mode.render_area = Area(b, 7, w, 40),
                         !.text.justify = j] :
         b \in {0, 3}, w \in {2, 5}, j \in {"Left", "Center", "Right"} }

\* The barcodes and the 2D codes handed to the renderer.
Barcodes ==
    [points : ModuleRows, point_width : {1, 2}, point_height : {3}]

Code2Ds ==
    [points : ModuleRows, width : 1..3, point_width : {1, 2},
     point_height : {3}]

\* Right-justified contexts with x at the base: ten characters of the
\* factory width 12 in the render area, ten characters of width 2, and the
\* factory render area.
RightContexts ==
    { [NewContext EXCEPT !.text.justify = "Right",
                         !.text.character_width = cw,
                         !.graphics.render_area.w = 10 * cw] : cw \in {2, 12} }
    \cup { [NewContext EXCEPT !.text.justify = "Right"] }

\* A word of n letters.
WordOf(n) == [i \in 1..n |-> "w"]

PureInit ==
    /\ res = <<>>
    /\ \/ /\ fn = "validate_data_length"
          /\ arg \in [kind : BarcodeTypes, length : 0..MaxLen]
       \/ /\ fn = "calculate_directional_rotation"
          /\ arg \in [from : Directions, to : Directions]
       \/ /\ fn = "rotation_deltas"
          /\ arg \in DirectionSeqs
       \/ /\ fn = "code128_texts"
          /\ arg \in Code128Payloads
       \/ /\ fn = "raster_get_graphics"
          /\ arg \in [scaling : Bytes, colors : ColorSchemes]
       \/ /\ fn = "process_barcode"
          /\ arg \in [ctx : DrawingContexts, barcode : Barcodes]
       \/ /\ fn = "process_code_2d"
          /\ arg \in [ctx : DrawingContexts, code_2d : Code2Ds]
       \/ /\ fn = "process_text"
          /\ arg \in [ctx : RightContexts, length : 1..MaxWordLen]

ApplyValidateDataLength ==
    /\ fn = "validate_data_length"
    /\ res = <<>>
    /\ res' = <<validate_data_length(arg.kind, arg.length)>>
    /\ UNCHANGED <<fn, arg>>
    /\ UNCHANGED <<parserVars, ctxVars, renderVars>>

ApplyDirectionalRotation ==
    /\ fn = "calculate_directional_rotation"
    /\ res = <<>>
    /\ res' = <<calculate_directional_rotation(arg.from, arg.to)>>
    /\ UNCHANGED <<fn, arg>>
    /\ UNCHANGED <<parserVars, ctxVars, renderVars>>

ApplyRotationDeltas ==
    /\ fn = "rotation_deltas"
    /\ res = <<>>
    /\ res' = <<RotationDeltas(arg)>>
    /\ UNCHANGED <<fn, arg>>
    /\ UNCHANGED <<parserVars, ctxVars, renderVars>>

ApplyCode128Texts ==
    /\ fn = "code128_texts"
    /\ res = <<>>
    /\ res' = <<Code128Texts(arg)>>
    /\ UNCHANGED <<fn, arg>>
    /\ UNCHANGED <<parserVars, ctxVars, renderVars>>

ApplyRasterGetGraphics ==
    /\ fn = "raster_get_graphics"
    /\ res = <<>>
    /\ res' = <<RasterGraphics(RasterCommandScaled(arg.scaling),
                               [DefaultContext EXCEPT
                                   !.graphics.render_colors = arg.colors])>>
    /\ UNCHANGED <<fn, arg>>
    /\ UNCHANGED <<parserVars, ctxVars, renderVars>>

\* process_barcode without human readable text: the bars are drawn.
ApplyProcessBarcode ==
    /\ fn = "process_barcode"
    /\ res = <<>>
    /\ res' = <<DrawBars(Renderer(arg.ctx, <<>>, <<>>, <<>>, "none"),
                         arg.barcode)>>
    /\ UNCHANGED <<fn, arg>>
    /\ UNCHANGED <<parserVars, ctxVars, renderVars>>

\* process_code_2d; beside the renderer it leaves, the result keeps which
\* module each rectangle was pushed for.
ApplyProcessCode2D ==
    /\ fn = "process_code_2d"
    /\ res = <<>>
    /\ res' = <<[r |-> process_code_2d(
                          Renderer(arg.ctx, <<>>, <<>>, <<>>, "none"),
                          arg.code_2d),
                 drawn |-> Code2DPlaced(arg.ctx, arg.code_2d,
                               calculate_justification(arg.ctx,
                                   arg.code_2d.width
                                       * arg.code_2d.point_width)).drawn]>>
    /\ UNCHANGED <<fn, arg>>
    /\ UNCHANGED <<parserVars, ctxVars, renderVars>>

\* process_text with one word collected, in either build.
ApplyProcessText ==
    /\ fn = "process_text"
    /\ res = <<>>
    /\ \E build \in Builds :
          res' = <<process_text(
                      Renderer(arg.ctx,
                               <<TextSpan(WordOf(arg.length), arg.ctx)>>,
                               <<>>, <<>>, "none"),
                      build)>>
    /\ UNCHANGED <<fn, arg>>
    /\ UNCHANGED <<parserVars, ctxVars, renderVars>>

----------------------------------------------------------------------------
(* Specifications *)

\* The parts a specification leaves alone.
ParserIdle ==
    /\ fixture = "none"
    /\ phase = "off"
    /\ buffer = <<>>
    /\ cur = NoCmd
    /\ curBytes = <<>>
    /\ emit = <<>>
    /\ pos = 0

PureIdle ==
    /\ fn = "none"
    /\ arg = <<>>
    /\ res = <<>>

RenderIdle ==
    /\ span_buffer = <<>>
    /\ lines = <<>>
    /\ lastKind = "none"
    /\ errors = <<>>
    /\ gfx = "none"
    /\ graphics_calls = 0
    /\ adapter_calls = <<>>
    /\ output_buffer = <<>>

\* The parser over its input streams.
Init == ParserInit /\ ContextInit /\ PureIdle /\ RenderIdle

Next == BeginParsing \/ ParseByte \/ EndParsing

Spec == Init /\ [][Next]_vars

\* The context under Initialize and the commands that change its sections.
ResetInit == ParserIdle /\ ContextInit /\ PureIdle /\ RenderIdle

ResetNext ==
    \/ Initialize
    \/ Justify
    \/ SetTextWidth
    \/ SetBarcodeHeight
    \/ SetQrSize
    \/ SetMotionUnits
    \/ CmdSetX
    \/ CmdOffsetY
    \/ BeginPageMode
    \/ EndPageMode
    \/ SetDirection
    \/ CmdSetPageArea
    \/ ChangePageArea

SpecReset == ResetInit /\ [][ResetNext]_vars

\* The context under the positioning commands, in standard and page mode.
CoordInit == ParserIdle /\ ContextInit /\ PureIdle /\ RenderIdle

CoordNext ==
    \/ BeginPageMode
    \/ EndPageMode
    \/ SetDirection
    \/ CmdSetPageArea
    \/ ChangePageArea
    \/ ChangePageModeDirection
    \/ SetMotionUnits
    \/ CmdSetX
    \/ CmdSetY
    \/ CmdOffsetX
    \/ CmdOffsetY
    \/ CmdResetX
    \/ CmdResetY
    \/ CmdSetXAbsolute
    \/ CmdSetYAbsolute
    \/ CmdOffsetXRelative
    \/ CmdOffsetYRelative

SpecCoord == CoordInit /\ [][CoordNext]_vars

\* The page-mode commands on a fresh context.
PageInit == ParserIdle /\ ContextInit /\ PureIdle /\ RenderIdle

PageNext ==
    \/ EnterPageMode
    \/ ExitPageMode
    \/ PrintDirection
    \/ PrintArea

SpecPage == PageInit /\ [][PageNext]_vars

\* The pure helpers applied to every input of their bounded domains.
PureSpecInit == ParserIdle /\ ContextInit /\ PureInit /\ RenderIdle

PureNext ==
    \/ ApplyValidateDataLength
    \/ ApplyDirectionalRotation
    \/ ApplyRotationDeltas
    \/ ApplyCode128Texts
    \/ ApplyRasterGetGraphics
    \/ ApplyProcessBarcode
    \/ ApplyProcessCode2D
    \/ ApplyProcessText

SpecPure == PureSpecInit /\ [][PureNext]_vars

\* Images made by from_raster_data and unpacked by as_grayscale.
ImageSpecInit == ParserIdle /\ ContextInit /\ ImageInit /\ RenderIdle

ImageNext ==
    \/ FromRasterData
    \/ AsGrayscale
    \/ ColumnToRaster

SpecImage == ImageSpecInit /\ [][ImageNext]_vars

\* The define-raster subcommand over a fresh context.
StoreInit == ParserIdle /\ ContextInit /\ PureIdle /\ RenderIdle

StoreNext == DefineRaster

SpecStore == StoreInit /\ [][StoreNext]_vars

\* One Renderer rendering one byte stream after another.
DocsInit == ParserIdle /\ ContextInit /\ PureIdle /\ RenderIdle

DocsNext == RenderDocument

SpecDocs == DocsInit /\ [][DocsNext]_vars

\* The renderer over commands of every kind.
RenderSpecInit == ParserIdle /\ RenderInit /\ PureIdle

RenderNext ==
    \/ ProcessUnknown
    \/ ProcessText
    \/ ProcessGraphics
    \/ ProcessContext
    \/ ProcessContextControl
    \/ ProcessControl
    \/ ProcessTextStyle
    \/ ProcessSubcommand

SpecRender == RenderSpecInit /\ [][RenderNext]_vars

----------------------------------------------------------------------------
(* Properties of the parser and of the handlers' push protocol (Spec) *)

ProperPrefix(p, q) == Len(p) < Len(q) /\ IsPrefixOf(p, q)

\* The command in flight and the commands just emitted, each with the input
\* bytes it consumed.
Instances ==
    (IF cur # NoCmd THEN {Emitted(cur, curBytes)} ELSE {})
        \cup { emit[i] : i \in 1..Len(emit) }

\* The instances dispatched on a registered prefix.
Dispatched == { e \in Instances : e.cmd.handler \notin {"text", "none"} }

ByteConservation ==
    \A i \in 1..Len(emit) :
        emit[i].cmd.handler \in {"barcode", "raster", "single"} =>
            CommandBytes(emit[i].cmd)[1] \o CommandBytes(emit[i].cmd)[2]
                = emit[i].consumed

\* The bytes of a NUL-terminated barcode between its selector and the NUL
\* that ends it.
NulTerminatedPayload(consumed) == SubSeq(consumed, 4, Len(consumed) - 1)

\* C3 - NUL-terminated barcode: a finished barcode whose selector is in 0..6
\* and whose input was d1..dn (none NUL) followed by a NUL has the payload
\* d1..dn, the NUL removed, also when the NUL is the last byte of the input.
NulTerminatedBarcode ==
    \A i \in 1..Len(emit) :
        LET e == emit[i]
        IN (/\ e.cmd.handler = "barcode"
            /\ e.cmd.h.encoding = "NulTerminated"
            /\ Len(e.consumed) >= 4
            /\ e.consumed[Len(e.consumed)] = NUL
            /\ \A k \in 4..(Len(e.consumed) - 1) : e.consumed[k] # NUL)
           => e.cmd.data = NulTerminatedPayload(e.consumed)

\* The explicit-size barcodes, in flight or emitted, whose capacity byte was read.
SizedBarcodes ==
    { e \in Instances : /\ e.cmd.handler = "barcode"
                        /\ e.cmd.h.encoding = "ExplicitSize"
                        /\ e.cmd.h.has_capacity }

\* C4 - Explicit-size barcode: the byte after the selector is the capacity n
\* and is not stored in the payload; the payload never holds more than n
\* bytes; the command consumed its prefix, selector, capacity byte and payload
\* and nothing else; a command completed by a rejected byte holds exactly n
\* bytes and the rejected byte is handed back to the parser.
ExplicitSizeBarcode ==
    /\ \A e \in SizedBarcodes :
          /\ e.cmd.h.capacity = e.consumed[4]
          /\ Len(e.cmd.data) <= e.cmd.h.capacity
          /\ e.consumed = e.cmd.commands \o <<e.cmd.h.kind_id, e.cmd.h.capacity>>
                              \o e.cmd.data
    /\ phase = "parsing" =>
          \A i \in 1..Len(emit) :
              emit[i] \in SizedBarcodes =>
                  /\ Len(emit[i].cmd.data) = emit[i].cmd.h.capacity
                  /\ (buffer # <<>> \/ cur # NoCmd)

\* 1D 6B 49 05 "HELLO" was completed by the byte after it: one Code128
\* command with payload "HELLO".
ExplicitSizeBarcodeWitness ==
    /\ fixture = "sized_barcode"
    /\ phase = "parsing"
    /\ Len(emit) = 1
    /\ emit[1].cmd.name = "Barcode"
    /\ emit[1].cmd.h.kind = "Code128"
    /\ emit[1].cmd.data = <<72, 69, 76, 76, 79>>

\* The raster bit images just handed downstream that consumed
\* 1D 76 30 03 02 00 01 00 and the two pixel bytes.
ScenarioRasters ==
    { i \in 1..Len(emit) :
          emit[i].consumed = SubSeq(RasterImageStream, 1, 10) }

\* C19 as stated: 1D 76 30 03 02 00 01 00 followed by 2 pixel bytes yields
\* one raster image command of width 16 and height 2 with 2x2 stretch, i.e.
\* width 32 and height 4 after scaling.
RasterScalingHeightTwo ==
    \A i \in ScenarioRasters :
        /\ emit[i].cmd.name = "Raster Bit Image"
        /\ RasterGraphics(emit[i].cmd, ctx).w = 16
        /\ RasterGraphics(emit[i].cmd, ctx).h = 2
        /\ RasterGraphics(emit[i].cmd, ctx).stretch = <<2, 2>>
        /\ ScaledSize(RasterGraphics(emit[i].cmd, ctx)) = [w |-> 32, h |-> 4]

\* C19 amended: 1D 76 30 03 02 00 01 00 followed by 2 pixel bytes yields one
\* raster image command of width 16 and height 1 with 2x2 stretch, i.e. width
\* 32 and height 2 after scaling.
RasterScalingHeightOne ==
    \A i \in ScenarioRasters :
        /\ emit[i].cmd.name = "Raster Bit Image"
        /\ RasterGraphics(emit[i].cmd, ctx).w = 16
        /\ RasterGraphics(emit[i].cmd, ctx).h = 1
        /\ RasterGraphics(emit[i].cmd, ctx).stretch = <<2, 2>>
        /\ ScaledSize(RasterGraphics(emit[i].cmd, ctx)) = [w |-> 32, h |-> 2]
        /\ emit[i].cmd.data = <<255, 129>>

\* The stream was parsed and its one raster image handed downstream.
RasterScalingWitness ==
    /\ fixture = "raster_image"
    /\ Cardinality(ScenarioRasters) = 1
    /\ \A i \in ScenarioRasters : emit[i].cmd.h.capacity = 2

\* A raster command whose header is complete: the five bytes after the prefix
\* are the header and none of them is in the payload, width-bytes and height
\* are the two little-endian pairs, the pixel width is 8 width-bytes, the
\* capacity is width-bytes * height and the payload is within it.
RasterHeaderTaken(c, consumed) ==
    LET header == SubSeq(consumed, Len(c.commands) + 1, Len(c.commands) + 5)
        width_bytes == header[2] + 256 * header[3]
    IN /\ Len(consumed) >= Len(c.commands) + 5
       /\ c.h.params = header
       /\ c.h.scaling = header[1]
       /\ c.h.width = 8 * width_bytes
       /\ c.h.height = header[4] + 256 * header[5]
       /\ c.h.capacity = width_bytes * c.h.height
       /\ c.data = SubSeq(consumed, Len(c.commands) + 6, Len(consumed))
       /\ Len(c.data) <= c.h.capacity

\* A raster command completed by a rejected byte holds exactly capacity data
\* bytes, and the rejected byte is not among the bytes it consumed.
RasterRejectsAtCapacity ==
    \A i \in DOMAIN emit :
       emit[i].cmd.handler = "raster" /\ phase = "parsing"
       => /\ emit[i].cmd.h.accept_data
          /\ RasterHeaderTaken(emit[i].cmd, emit[i].consumed)
          /\ Len(emit[i].cmd.data) = emit[i].cmd.h.capacity
          /\ Len(emit[i].consumed) = Len(emit[i].cmd.commands) + 5
                                        + emit[i].cmd.h.capacity

\* C23 as stated: the GS 'v' '0' handler takes the first 5 bytes as header,
\* sets width-bytes, height, pixel width and capacity from them, accepts
\* exactly capacity data bytes and rejects the next byte unconsumed; at every
\* step the payload length is at most the capacity.
RasterPayloadAlwaysWithinCapacity ==
    /\ cur.handler = "raster"
       => /\ Len(cur.data) <= cur.h.capacity
          /\ cur.h.accept_data => RasterHeaderTaken(cur, curBytes)
    /\ RasterRejectsAtCapacity

\* C23 amended: as stated, but the payload length is at most the capacity at
\* every step once the header is complete (the first four header bytes
\* wait in the payload while the capacity is still 0).
RasterPayloadWithinCapacity ==
    /\ cur.handler = "raster" /\ cur.h.accept_data
       => RasterHeaderTaken(cur, curBytes)
    /\ RasterRejectsAtCapacity

\* A raster command of capacity 1 took its one data byte and was completed by
\* the byte after it.
RasterPayloadWithinCapacityWitness ==
    /\ phase = "parsing"
    /\ \E i \in DOMAIN emit :
          /\ emit[i].cmd.handler = "raster"
          /\ emit[i].cmd.h.capacity = 1
          /\ Len(emit[i].cmd.data) = 1

\* A column bit image whose header is complete: the three bytes after the
\* prefix are m, p1, p2 and are not in the payload, width, capacity and height
\* follow from them, and the payload is the data bytes accepted so far.
BitImageHeaderTaken(c, consumed) ==
    LET header == SubSeq(consumed, Len(c.commands) + 1, Len(c.commands) + 3)
        width == header[2] + 256 * header[3]
    IN /\ Len(consumed) >= Len(c.commands) + 3
       /\ c.h.width = width
       /\ (header[1] \in {32, 33}
            => c.h.capacity = 3 * width /\ c.h.height = 24)
       /\ (header[1] \notin {32, 33}
            => c.h.capacity = width /\ c.h.height = 8)
       /\ c.data = SubSeq(consumed, Len(c.commands) + 4, Len(consumed))
       /\ c.h.size = Len(c.data)

\* C25 - Column bit-image accumulation: the ESC '*' handler takes the first
\* three bytes as m, p1, p2 (cleared from the payload), sets width =
\* p1 + 256 p2, capacity = 3 width and height 24 when m is 32 or 33, otherwise
\* capacity = width and height 8; it accepts exactly capacity data bytes and
\* rejects the next byte without consuming it; size <= capacity in every state.
BitImageAccumulation ==
    /\ cur.handler = "bit_image"
       => /\ cur.h.size <= cur.h.capacity
          /\ cur.h.accept_data => BitImageHeaderTaken(cur, curBytes)
    /\ \A i \in DOMAIN emit :
          emit[i].cmd.handler = "bit_image"
          => /\ emit[i].cmd.h.size <= emit[i].cmd.h.capacity
             /\ phase = "parsing"
                => /\ emit[i].cmd.h.accept_data
                   /\ BitImageHeaderTaken(emit[i].cmd, emit[i].consumed)
                   /\ emit[i].cmd.h.size = emit[i].cmd.h.capacity
                   /\ Len(emit[i].consumed) = Len(emit[i].cmd.commands) + 3
                                                 + emit[i].cmd.h.capacity

\* A 24-dot bit image of width 1 took its three data bytes and was completed
\* by the byte after them.
BitImageAccumulationWitness ==
    /\ phase = "parsing"
    /\ \E i \in DOMAIN emit :
          /\ emit[i].cmd.handler = "bit_image"
          /\ emit[i].cmd.h.height = 24
          /\ emit[i].cmd.h.capacity = 3
          /\ Len(emit[i].cmd.data) = 3

\* The selector values the symbology match lists.
ListedSelectors == (0..6) \cup (65..73) \cup (80..85)

\* The barcode instances whose selector has arrived.
SelectedBarcodes ==
    { e \in Instances : e.cmd.handler = "barcode" /\ e.cmd.h.accept_data }

\* C26 as stated: a GS 'k' command whose selector is not one of the listed
\* symbology values consumes only the selector: the next byte offered is
\* rejected unconsumed and the payload stays empty.
UnlistedSelectorConsumesNothing ==
    \A e \in SelectedBarcodes :
       e.cmd.h.kind_id \notin ListedSelectors
       => /\ e.consumed = Append(e.cmd.commands, e.cmd.h.kind_id)
          /\ e.cmd.data = <<>>

\* C26 amended: the same for a selector that is not one of the listed
\* symbology values and is not in 74..79.
UnknownSelectorConsumesNothing ==
    \A e \in SelectedBarcodes :
       e.cmd.h.kind_id \notin (ListedSelectors \cup (74..79))
       => /\ e.consumed = Append(e.cmd.commands, e.cmd.h.kind_id)
          /\ e.cmd.data = <<>>

\* A barcode with selector 7 was completed by the byte that followed it.
UnknownSelectorConsumesNothingWitness ==
    /\ phase = "parsing"
    /\ \E i \in DOMAIN emit :
          /\ emit[i].cmd.handler = "barcode"
          /\ emit[i].cmd.h.kind_id = 7
          /\ emit[i].consumed = <<GS, Chr_k, 7>>
    /\ cur # NoCmd \/ buffer # <<>>

\* C27 - No barcode for selectors 80..85: such a selector is mapped to a
\* symbology (GS1-128, a GS1 DataBar variant or Code128Auto) but lies outside
\* both the NUL-terminated and the explicit-size range, so the payload of the
\* command is empty and get_graphics returns an error, never a barcode.
NoBarcodeForGs1Selectors ==
    \A e \in SelectedBarcodes :
       e.cmd.h.kind_id \in 80..85
       => /\ e.cmd.h.kind # "Unknown"
          /\ e.cmd.data = <<>>
          /\ BarcodeGraphics(e.cmd) = {"Error"}

\* A barcode with selector 85 (Code128Auto) was completed by the byte that
\* followed the selector.
NoBarcodeForGs1SelectorsWitness ==
    /\ phase = "parsing"
    /\ \E i \in DOMAIN emit :
          /\ emit[i].cmd.handler = "barcode"
          /\ emit[i].cmd.h.kind_id = 85
          /\ emit[i].cmd.h.kind = "Code128Auto"
          /\ emit[i].consumed = <<GS, Chr_k, 85>>

----------------------------------------------------------------------------
(* Properties of validate_data_length and of the rotation delta (SpecPure) *)

\* The symbologies the validation table names.
TabledTypes ==
    {"UpcA", "Ean13", "Gs1DatabarOmni", "Gs1DatabarTruncated",
     "Gs1DatabarLimited", "Code128", "Gs1128", "Gs1DatabarExpanded",
     "Code39", "Code128Auto", "Nw7Codabar", "Itf"}

\* The validation table: the payload lengths each symbology allows.
LengthTable(kind, n) ==
    CASE kind = "UpcA" -> n \in {11, 12}
      [] kind = "Ean13" -> n \in {12, 13}
      [] kind \in {"Gs1DatabarOmni", "Gs1DatabarTruncated",
                   "Gs1DatabarLimited"} -> n = 13
      [] kind \in {"Code128", "Gs1128", "Gs1DatabarExpanded"} -> n > 1
      [] kind \in {"Code39", "Code128Auto"} -> n > 0
      [] OTHER -> n > 2

Validated == fn = "validate_data_length" /\ res # <<>>

\* C5 as stated - validate_data_length(kind, n) is true exactly when the
\* table allows n, for every tabled symbology and every n in 0..256.
ValidationAgreesUpTo256 ==
    (Validated /\ arg.kind \in TabledTypes /\ arg.length <= 256) =>
        res[1] = LengthTable(arg.kind, arg.length)

\* C5 as amended - validate_data_length(kind, n) is true exactly when the
\* table allows n, for every tabled symbology and every n in 0..255; for
\* n >= 256 it is false for every symbology.
ValidationAgreesUpTo255 ==
    Validated =>
        /\ (arg.kind \in TabledTypes /\ arg.length <= 255) =>
               res[1] = LengthTable(arg.kind, arg.length)
        /\ arg.length >= 256 => res[1] = FALSE

\* A Code39 payload of 256 bytes, which the table allows, was rejected.
ValidationWitness ==
    /\ Validated
    /\ arg.kind = "Code39"
    /\ arg.length = 256
    /\ res = <<FALSE>>

\* The direction encoding of the rotation delta.
ClaimedIndex(d) ==
    CASE d = "TopLeft2Right" -> 0
      [] d = "BottomLeft2Top" -> 1
      [] d = "BottomRight2Left" -> 2
      [] OTHER -> 3

Degrees(r) ==
    CASE r = "R0" -> 0
      [] r = "R90" -> 90
      [] r = "R180" -> 180
      [] OTHER -> 270

\* C10 - Rotation delta: calculate_directional_rotation(from, to) is
\* ((index(to) - index(from)) mod 4) * 90 degrees for every pair of
\* directions, and it is R0 exactly when from = to.
RotationDelta ==
    (fn = "calculate_directional_rotation" /\ res # <<>>) =>
        /\ Degrees(res[1])
              = ((ClaimedIndex(arg.to) - ClaimedIndex(arg.from)) % 4) * 90
        /\ (res[1] = "R0") <=> (arg.from = arg.to)

\* A pair whose index difference is negative: TopRight2Bottom (3) to
\* TopLeft2Right (0) is a quarter turn.
RotationDeltaWitness ==
    /\ fn = "calculate_directional_rotation"
    /\ arg.from = "TopRight2Bottom"
    /\ arg.to = "TopLeft2Right"
    /\ res = <<"R90">>

\* C24 - Raster scaling map: for every scaling byte the image get_graphics
\* asks for has stretch (1,1) for 0 and 48, (2,1) for 1 and 49, (1,2) for 2
\* and 50, (2,2) for 3 and 52; it is Block-flow and coloured with the
\* context's render_colors.color_1.
RasterScalingMap ==
    fn = "raster_get_graphics" /\ res # <<>>
    => /\ (arg.scaling \in {0, 48} => res[1].stretch = <<1, 1>>)
       /\ (arg.scaling \in {1, 49} => res[1].stretch = <<2, 1>>)
       /\ (arg.scaling \in {2, 50} => res[1].stretch = <<1, 2>>)
       /\ (arg.scaling \in {3, 52} => res[1].stretch = <<2, 2>>)
       /\ res[1].flow = "Block"
       /\ res[1].color = arg.colors.color_1

\* The scaling byte 52 gave a 2 x 2 stretch in a context whose colour 1 is
\* not the factory black.
RasterScalingMapWitness ==
    /\ fn = "raster_get_graphics"
    /\ res # <<>>
    /\ arg.scaling = 52
    /\ arg.colors.color_1 # DefaultRenderColors.color_1
    /\ res[1].stretch = <<2, 2>>

----------------------------------------------------------------------------
(* Properties of Context::reset (SpecReset) *)

\* C6 - Every Initialize step leaves the text, barcode, code2d and graphics
\* sections equal to those of the default snapshot held before the step, and
\* leaves the snapshot and the whole page_mode section as they were.
ResetRestoresSections ==
    [][lastOp' = "reset" =>
          /\ ctx'.text = ctx.default[1].text
          /\ ctx'.barcode = ctx.default[1].barcode
          /\ ctx'.code2d = ctx.default[1].code2d
          /\ ctx'.graphics = ctx.default[1].graphics
          /\ ctx'.default = ctx.default
          /\ ctx'.page_mode = ctx.page_mode]_vars

\* Initialize ran in page mode, after the print direction and the logical
\* area were changed.
ResetRestoresSectionsWitness ==
    /\ lastOp = "reset"
    /\ ctx.page_mode.enabled
    /\ ctx.page_mode.direction # "TopLeft2Right"
    /\ ctx.page_mode.logical_area # Area(0, 0, 0, 0)

\* C7 - Reset idempotence: an Initialize step that directly follows another
\* Initialize step leaves the context as it was.
ResetIdempotent == [][resets' >= 2 => ctx' = ctx]_vars

\* Initialize ran twice in a row on a context that had left its defaults.
ResetIdempotentWitness ==
    /\ resets = 2
    /\ steps = MaxSteps
    /\ ctx.page_mode.enabled

----------------------------------------------------------------------------
(* Properties of the coordinate operations (SpecCoord) *)

\* The operations that move the render-area x.
XOperations ==
    {"set_x", "set_x_absolute", "set_y_absolute", "offset_x",
     "offset_x_relative", "reset_x", "apply_logical_area"}

\* C8 - After each of set_x, set_x_absolute, set_y_absolute, offset_x,
\* offset_x_relative, reset_x and apply_logical_area, get_x is not below
\* get_base_x (0 in standard mode, page_area.x in page mode).
RenderXNotBelowBase ==
    (panic = "none" /\ lastOp \in XOperations) => GetX(ctx) >= GetBaseX(ctx)

\* The operations that divide by a motion unit or subtract coordinates.
CoordinateMath ==
    {"offset_x_relative", "offset_y_relative", "set_x_absolute",
     "set_y_absolute", "set_page_area", "apply_logical_area"}

\* C9 - Coordinate math never aborts: offset_x_relative, offset_y_relative,
\* set_x_absolute, set_y_absolute, set_page_area and apply_logical_area
\* complete, whatever the motion units hold.
CoordinateMathCompletes == lastOp \in CoordinateMath => panic = "none"

----------------------------------------------------------------------------
(* Properties of sequences of print directions (SpecPure) *)

RECURSIVE SumDegrees(_)
\* The sum of the degrees of a sequence of rotations.
SumDegrees(rots) ==
    IF Len(rots) = 0 THEN 0
    ELSE Degrees(rots[1]) + SumDegrees(SubSeq(rots, 2, Len(rots)))

\* C11 - Page-rotation group: along every sequence of directions that ends
\* on the direction it started from, the rotation deltas of the consecutive
\* pairs sum to a multiple of 360 degrees.
RotationGroup ==
    (fn = "rotation_deltas" /\ res # <<>> /\ arg[1] = arg[Len(arg)]) =>
        SumDegrees(res[1]) % 360 = 0

\* The sequence TopLeft2Right, BottomLeft2Top, BottomRight2Left,
\* TopRight2Bottom, TopLeft2Right made four quarter turns: 360 degrees.
RotationGroupWitness ==
    /\ fn = "rotation_deltas"
    /\ arg = <<"TopLeft2Right", "BottomLeft2Top", "BottomRight2Left",
               "TopRight2Bottom", "TopLeft2Right">>
    /\ res = <<<<"R90", "R90", "R90", "R90">>>>

\* A text without the code-set sentinels.
DeleteSentinels(text) ==
    SelectSeq(text, LAMBDA ch : ch \notin {SentinelA, SentinelB, SentinelC})

\* The switches of a payload removed in one pass from the left.
RECURSIVE RemoveSwitches(_)
RemoveSwitches(text) ==
    IF Len(text) < 2 THEN text
    ELSE IF text[1] = "{" /\ text[2] \in {"A", "B", "C"}
    THEN RemoveSwitches(SubSeq(text, 3, Len(text)))
    ELSE <<text[1]>> \o RemoveSwitches(Tail(text))

\* C20: for every Code128 payload the human readable text is the payload
\* with the switches {A, {B, {C removed, the encoder input is the payload with
\* each of those switches replaced by one sentinel, and deleting the sentinels
\* from the encoder input gives exactly the human readable text.
Code128SwitchesStripped ==
    (fn = "code128_texts" /\ res # <<>> /\ res[1].ok) =>
        /\ res[1].hri_data = RemoveSwitches(arg)
        /\ DeleteSentinels(res[1].adjusted_data) = res[1].hri_data

----------------------------------------------------------------------------
(* Properties of the page-mode commands (SpecPage) *)

\* The needs-swap bit of a direction.
ClaimedNeedsSwap(d) == d \in {"TopRight2Bottom", "BottomLeft2Top"}

\* A step of SpecPage that ran apply_logical_area.
AppliedLogicalArea ==
    steps' = steps + 1 /\ lastOp' \in {"print_direction", "print_area"}

\* C12 - Dimension swap step: apply_logical_area exchanges page_area.w and
\* page_area.h exactly when the needs-swap bits of the previous and of the
\* current direction differ; the page area then grows from the exchanged (or
\* kept) dimensions to the extent of the translated render area.
DimensionSwapStep ==
    [][AppliedLogicalArea =>
          LET before == ctx.page_mode.page_area
              pm == ctx'.page_mode
              differ == ClaimedNeedsSwap(pm.previous_direction)
                           # ClaimedNeedsSwap(pm.direction)
              base_w == IF differ THEN before.h ELSE before.w
              base_h == IF differ THEN before.w ELSE before.h
          IN /\ (swaps' # swaps) <=> differ
             /\ pm.page_area.w = Max(pm.render_area.x + pm.render_area.w, base_w)
             /\ pm.page_area.h = Max(pm.render_area.y + pm.render_area.h, base_h)]_vars

\* A direction change exchanged a page area that was wider than high.
DimensionSwapStepWitness ==
    /\ lastOp = "print_direction"
    /\ swaps = 1
    /\ ctx.page_mode.direction = "BottomLeft2Top"
    /\ ctx.page_mode.page_area.h > ctx.page_mode.page_area.w

\* The directions set so far, in order.
DirectionsSet == SelectSeq(trail, LAMBDA e : e.op = "direction")

\* The XOR of the needs-swap bits of the directions set so far.
NeedsSwapXor ==
    Cardinality({ i \in 1..Len(DirectionsSet) :
                    ClaimedNeedsSwap(DirectionsSet[i].dir) }) % 2

\* C13 as stated - Dimension-swap parity: after N direction changes the
\* page area is in swapped orientation exactly when the XOR of the
\* needs-swap bits of the N directions set is 1.
SwapParityIsXorOfBits == swaps = NeedsSwapXor

\* C13 as amended - after N direction changes the page area is in swapped
\* orientation exactly when the needs-swap bit of the last direction set is
\* 1 (never, when no direction was set).
SwapParityIsLastBit ==
    (swaps = 1) <=>
        (/\ Len(DirectionsSet) > 0
         /\ ClaimedNeedsSwap(DirectionsSet[Len(DirectionsSet)].dir))

\* Two swapping directions were set in a row: one exchange, XOR of bits 0.
SwapParityWitness ==
    /\ Len(DirectionsSet) = 2
    /\ DirectionsSet[1].dir = "TopRight2Bottom"
    /\ DirectionsSet[2].dir = "BottomLeft2Top"
    /\ swaps = 1

\* BeginPageMode; SetDirection(TopRight2Bottom).
RotationScenarioDirection ==
    <<TrailEntry("begin", "none", NoArea),
      TrailEntry("direction", "TopRight2Bottom", NoArea)>>

\* BeginPageMode; SetDirection(TopRight2Bottom); SetLogicalArea(0, 0, 100, 200).
RotationScenario ==
    Append(RotationScenarioDirection,
           TrailEntry("area", "none", Area(0, 0, 100, 200)))

\* C14 as stated - Page mode rotation scenario: the apply_logical_area run
\* for the logical-area change returns rotation 270 and leaves the render
\* area with w = 200 and h = 100.
RotationScenarioAtArea ==
    trail = RotationScenario =>
        /\ rotation = "R270"
        /\ ctx.page_mode.render_area.w = 200
        /\ ctx.page_mode.render_area.h = 100

\* C14 as amended - the apply_logical_area run for the direction change
\* returns rotation 270; the one for the logical-area change returns
\* rotation 0 and leaves the render area with w = 200 and h = 100.
RotationScenarioAtDirection ==
    /\ trail = RotationScenarioDirection => rotation = "R270"
    /\ trail = RotationScenario =>
          /\ rotation = "R0"
          /\ ctx.page_mode.render_area.w = 200
          /\ ctx.page_mode.render_area.h = 100

\* The scenario ran to its end in page mode.
RotationScenarioWitness ==
    /\ trail = RotationScenario
    /\ ctx.page_mode.enabled
    /\ ctx.page_mode.direction = "TopRight2Bottom"
    /\ ctx.page_mode.logical_area = Area(0, 0, 100, 200)

\* C28 - Page-area envelope: after every apply_logical_area the page area
\* covers the render extent (w >= render x + w, h >= render y + h), its w and h
\* are the maximum of their value after the optional exchange and that
\* extent, and its x and y are the render area's x and y.
PageAreaEnvelope ==
    [][AppliedLogicalArea =>
          LET before == ctx.page_mode.page_area
              p == ctx'.page_mode.page_area
              r == ctx'.page_mode.render_area
              kept_w == IF swaps' # swaps THEN before.h ELSE before.w
              kept_h == IF swaps' # swaps THEN before.w ELSE before.h
          IN /\ p.w >= r.x + r.w
             /\ p.h >= r.y + r.h
             /\ p.w >= kept_w
             /\ p.h >= kept_h
             /\ p.w \in {kept_w, r.x + r.w}
             /\ p.h \in {kept_h, r.y + r.h}
             /\ p.x = r.x
             /\ p.y = r.y]_vars

\* A print area that starts at x = 1 moved the page area's origin there and
\* stretched the page area to the render extent.
PageAreaEnvelopeWitness ==
    /\ lastOp = "print_area"
    /\ ctx.page_mode.page_area.x = 1
    /\ ctx.page_mode.render_area.x = 1
    /\ ctx.page_mode.page_area.w
          = ctx.page_mode.render_area.x + ctx.page_mode.render_area.w

\* C29 - Logical-to-render translation: after apply_logical_area the render
\* area's (w, h) is the logical area's (w, h) for TopLeft2Right and
\* BottomRight2Left and the logical area's (h, w) for TopRight2Bottom and
\* BottomLeft2Top; for TopLeft2Right its x and y are the logical x and y.
LogicalToRender ==
    lastOp \in {"print_direction", "print_area"}
    => LET l == ctx.page_mode.logical_area
           r == ctx.page_mode.render_area
           d == ctx.page_mode.direction
       IN /\ (d \in {"TopLeft2Right", "BottomRight2Left"}
               => r.w = l.w /\ r.h = l.h)
          /\ (d \in {"TopRight2Bottom", "BottomLeft2Top"}
               => r.w = l.h /\ r.h = l.w)
          /\ (d = "TopLeft2Right" => r.x = l.x /\ r.y = l.y)

\* The logical area 100 x 200 was translated to a render area 200 x 100 in
\* the direction BottomLeft2Top.
LogicalToRenderWitness ==
    /\ lastOp \in {"print_direction", "print_area"}
    /\ ctx.page_mode.direction = "BottomLeft2Top"
    /\ ctx.page_mode.logical_area = Area(0, 0, 100, 200)
    /\ ctx.page_mode.render_area.w = 200
    /\ ctx.page_mode.render_area.h = 100

\* C30 - ChangePageArea always reports no rotation: the renderer sets
\* previous_direction to the current direction before apply_logical_area, so
\* whatever directions were set before, page_area_changed gets rotation R0
\* and the command does not exchange page_area.w and page_area.h.
ChangePageAreaNoRotation ==
    [][steps' = steps + 1 /\ lastOp' = "print_area"
       => /\ rotation' = "R0"
          /\ ctx'.page_mode.previous_direction = ctx'.page_mode.direction
          /\ ctx'.page_mode.direction = ctx.page_mode.direction
          /\ swaps' = swaps
          /\ ctx'.page_mode.page_area.w >= ctx.page_mode.page_area.w
          /\ ctx'.page_mode.page_area.h >= ctx.page_mode.page_area.h]_vars

\* A print area was set right after the direction went from TopLeft2Right to
\* BottomLeft2Top, a change that rotates.
ChangePageAreaNoRotationWitness ==
    /\ Len(trail) = 3
    /\ trail[2] = TrailEntry("direction", "BottomLeft2Top", NoArea)
    /\ trail[3].op = "area"
    /\ lastOp = "print_area"
    /\ rotation = "R0"
    /\ ctx.page_mode.direction = "BottomLeft2Top"

----------------------------------------------------------------------------
(* Properties of the renderer (SpecRender) *)

\* The kinds whose arm of process_command lays the collected text out.
FlushingKinds ==
    {"Unknown", "Graphics", "Context", "ContextControl", "Control"}

\* C15 as stated: after the renderer processes a command of any kind but
\* Text (Unknown, Graphics, Context, ContextControl, Control, TextStyle,
\* Subcommand), the span buffer is empty.
SpanBufferEmptyAfterNonText ==
    lastKind \in CommandTypes \ {"Text"} => span_buffer = <<>>

\* C15 amended: after the renderer processes a command of kind Unknown,
\* Graphics, Context, ContextControl or Control, the span buffer is empty:
\* every span collected before the command has been laid out and handed to
\* the adapter.
SpanBufferEmptyAfterFlush ==
    lastKind \in FlushingKinds => span_buffer = <<>>

\* A flushing command arrived with text pending and handed it to the adapter.
SpanBufferEmptyAfterFlushWitness ==
    /\ lastKind \in FlushingKinds
    /\ lines # <<>>
    /\ span_buffer = <<>>
    /\ panic = "none"

\* The text "abcdefghij klmn" is pending with Right justification, the render
\* width is ten characters and x is at the base.
WrapScenario ==
    /\ Len(span_buffer) = 1
    /\ span_buffer[1].text =
           <<"a", "b", "c", "d", "e", "f", "g", "h", "i", "j", SP, "k", "l", "m", "n">>
    /\ span_buffer[1].justify = "Right"
    /\ GetWidth(ctx) = 10 * span_buffer[1].character_width
    /\ GetX(ctx) = GetBaseX(ctx)

\* The kinds whose arm lays the text out and hands nothing else to render_text.
PlainFlushKinds == {"Unknown", "Context", "ContextControl", "Control"}

\* C16: with render width 10 char_w, x at the base and Right justification,
\* the text "abcdefghij klmn" is emitted as exactly two lines: "abcdefghij "
\* with x_offset 0, then "klmn" with x_offset (10 - 4) char_w.
RightJustifiedWrap ==
    [][WrapScenario /\ lastKind' \in PlainFlushKinds /\ panic' = "none"
       => /\ Len(lines') = 2
          /\ lines'[1].text = <<"a", "b", "c", "d", "e", "f", "g", "h", "i", "j", SP>>
          /\ lines'[1].x_offset = 0
          /\ lines'[2].text = <<"k", "l", "m", "n">>
          /\ lines'[2].x_offset = (10 - 4) * span_buffer[1].character_width]_vars

\* C21: when get_graphics of a Graphics command gives an error, the renderer
\* appends exactly one GraphicsError to its error list, makes no
\* render_graphics call for that command and does not abort, so the commands
\* that follow are processed; the error list only ever grows at its end, so
\* the errors come back in their order of occurrence.
GraphicsErrorRecoverable ==
    [][/\ IsPrefixOf(errors, errors')
       /\ (lastKind' = "Graphics" /\ gfx' = "Error"
            => /\ errors' = Append(errors, "GraphicsError")
               /\ graphics_calls' = 0
               /\ panic' = "none")]_vars

\* A graphics error was logged and the command after it was processed: an
\* unknown command, whose error follows the graphics error.
GraphicsErrorRecoverableWitness ==
    /\ lastKind = "Unknown"
    /\ Len(errors) >= 2
    /\ errors[Len(errors) - 1] = "GraphicsError"
    /\ errors[Len(errors)] = "UnknownCommand"

\* The text "\tx" is pending on its own and the renderer is in standard mode.
TabScenario ==
    /\ Len(span_buffer) = 1
    /\ span_buffer[1].text = <<HT, "x">>
    /\ ~ctx.page_mode.enabled

\* The tab stops: the running sums of tabs[i] * character_width.
RECURSIVE RunningSum(_, _)
RunningSum(tabs, k) == IF k = 0 THEN 0 ELSE RunningSum(tabs, k - 1) + tabs[k]

TabStops(c, cw) == { RunningSum(c.text.tabs, k) * cw : k \in 1..Len(c.text.tabs) }

\* Where the claim puts x after a tab: the smallest stop strictly greater than
\* x, or x itself when there is none.
ClaimedTabX(c, cw) ==
    LET beyond == { stop \in TabStops(c, cw) : stop > GetX(c) }
    IN IF beyond = {} THEN GetX(c)
       ELSE CHOOSE stop \in beyond : \A other \in beyond : stop <= other

\* The kinds whose arm lays the text out and leaves x where the text ended.
KeepXKinds == {"Unknown", "Context"}

\* C22: a tab moves x to the smallest tab stop strictly greater than x, the
\* stops being the running sums of tabs[i] * char_width, and leaves x alone
\* when there is none: when the text "\tx" is laid out and "x" fits behind the
\* stop, x ends one character behind that stop.
TabResolution ==
    [][/\ TabScenario
       /\ lastKind' \in KeepXKinds
       /\ ClaimedTabX(ctx, span_buffer[1].character_width)
              + span_buffer[1].character_width <= GetWidth(ctx)
       => GetX(ctx') = ClaimedTabX(ctx, span_buffer[1].character_width)
                          + span_buffer[1].character_width]_vars

----------------------------------------------------------------------------
(* Properties of the images (SpecImage) *)

\* Bytes in a row of a bit-packed image of width w.
RowBytes(w) == (w + 7) \div 8

\* The byte of eight pixels, first pixel in the top bit, black (0) as 1.
RECURSIVE PackByte(_)
PackByte(gray) ==
    IF gray = <<>> THEN 0
    ELSE (IF Head(gray) = 0 THEN 2 ^ (Len(gray) - 1) ELSE 0)
         + PackByte(Tail(gray))

\* The bytes of one row of pixels, the last byte filled up with 0 bits.
RECURSIVE PackRow(_)
PackRow(gray) ==
    IF gray = <<>> THEN <<>>
    ELSE IF Len(gray) < 8
    THEN <<PackByte(gray \o [i \in 1..(8 - Len(gray)) |-> 255])>>
    ELSE <<PackByte(SubSeq(gray, 1, 8))>> \o PackRow(SubSeq(gray, 9, Len(gray)))

\* Re-packing grayscale pixels of width w row by row.
RECURSIVE Repack(_, _)
Repack(gray, w) ==
    IF Len(gray) < w \/ w = 0 THEN <<>>
    ELSE PackRow(SubSeq(gray, 1, w)) \o Repack(SubSeq(gray, w + 1, Len(gray)), w)

\* as_grayscale ran on a bit-packed image of width at least 1 whose buffer is
\* h rows of RowBytes(w) bytes.
UnpackedRows ==
    /\ fn = "as_grayscale"
    /\ res # <<>>
    /\ arg.pixel_type = "Monochrome"
    /\ arg.stretch = <<1, 1>>
    /\ arg.w >= 1
    /\ Len(arg.pixels) = arg.h * RowBytes(arg.w)

\* The bits of each row's last byte below the width are 0.
PaddingClear ==
    \A i \in 1..Len(arg.pixels) :
        i % RowBytes(arg.w) = 0 =>
            arg.pixels[i] % (2 ^ (8 * RowBytes(arg.w) - arg.w)) = 0

\* C17 as stated: for every width w >= 1, height h and bit-packed buffer r of
\* h rows of ceil(w/8) bytes of any values, re-packing the grayscale output
\* gives back r exactly.
RepackRecoversRows ==
    UnpackedRows => Repack(res[1], arg.w) = arg.pixels

\* C17 amended: for every width w >= 1, height h and bit-packed buffer r of h
\* rows of ceil(w/8) bytes whose bits beyond the width are 0, re-packing the
\* grayscale output (0 -> bit 1, 255 -> bit 0, MSB-first, rows padded with 0
\* bits to whole bytes) gives back r exactly.
RepackRecoversClearRows ==
    (UnpackedRows /\ PaddingClear) => Repack(res[1], arg.w) = arg.pixels

\* Two rows of nine pixels, all black, came back as they were.
RepackRecoversClearRowsWitness ==
    /\ UnpackedRows
    /\ PaddingClear
    /\ arg.w = 9
    /\ arg.pixels = <<255, 128, 255, 128>>
    /\ Repack(res[1], arg.w) = arg.pixels

\* C18: for every image a constructor can make (any w and h, 0 included, any
\* pixel type, any length of pixel data), as_grayscale returns exactly w * h
\* bytes.
GrayscaleLength ==
    (fn = "as_grayscale" /\ res # <<>>) => Len(res[1]) = arg.w * arg.h

\* The positions in a sequence of adapter calls of the calls of one method.
CallsOf(calls, method) == { i \in DOMAIN calls : calls[i].call = method }

\* The characters of the spans of a buffer that a line can hold: all but the
\* line feeds and the tabs.
RECURSIVE PlacedText(_)
PlacedText(spans) ==
    IF spans = <<>> THEN <<>>
    ELSE SelectSeq(Head(spans).text, LAMBDA ch : ch \notin {LF, HT})
         \o PlacedText(Tail(spans))

\* The characters handed to render_text by a sequence of adapter calls.
RECURSIVE RenderedText(_)
RenderedText(calls) ==
    IF calls = <<>> THEN <<>>
    ELSE (IF Head(calls).call = "render_text" THEN Head(calls).data.text
          ELSE <<>>)
         \o RenderedText(Tail(calls))

\* C31: for a Control command every render_text call comes before every
\* device_command call and is made at a position the feed has not yet moved;
\* unless the layout aborted, the render_text calls carry all the collected
\* text, the buffer is left empty, the line feed reaches the adapter once,
\* with the position the text was placed at, and only then moves y down by
\* one line.
ControlFlushesFirst ==
    [][lastKind' = "Control" =>
         /\ \A i \in CallsOf(adapter_calls', "render_text") :
               \A j \in CallsOf(adapter_calls', "device_command") :
                  i < j /\ adapter_calls'[i].y = adapter_calls'[j].y
         /\ panic' = "none" =>
               /\ span_buffer' = <<>>
               /\ RenderedText(adapter_calls') = PlacedText(span_buffer)
               /\ Cardinality(CallsOf(adapter_calls', "device_command")) = 1
               /\ \A j \in CallsOf(adapter_calls', "device_command") :
                     /\ j = Len(adapter_calls')
                     /\ GetY(ctx') = adapter_calls'[j].y + ctx.text.line_spacing
                     /\ GetX(ctx') = GetBaseX(ctx')]_vars

\* A line feed arrives while text is collected: the text is handed to
\* render_text and the FeedLine to device_command.
ControlFlushesFirstWitness ==
    /\ lastKind = "Control"
    /\ panic = "none"
    /\ CallsOf(adapter_calls, "render_text") # {}
    /\ CallsOf(adapter_calls, "device_command") # {}

\* The render_text calls that carry the human readable text of the barcode.
HriCalls(calls) ==
    { i \in CallsOf(calls, "render_text") : calls[i].data.text = BarcodePayload }

\* C32: when a barcode is drawn, the human readable text reaches render_text
\* before the render_graphics call, which is made one line further down, if
\* the placement is Above or Both; after the render_graphics call, with one
\* newline applied after it, if the placement is Below or Both; and not at
\* all if the placement is None. There is one render_graphics call, and with
\* Both the text is handed over once on each side of it.
HriOrdering ==
    [][lastKind' = "Graphics" /\ gfx' = "Barcode" /\ panic' = "none" =>
         \E g \in CallsOf(adapter_calls', "render_graphics") :
            LET hri == ctx.barcode.human_readable
                above == { i \in HriCalls(adapter_calls') : i < g }
                below == { i \in HriCalls(adapter_calls') : i > g }
            IN /\ CallsOf(adapter_calls', "render_graphics") = {g}
               /\ Cardinality(above) = IF hri \in {"Above", "Both"} THEN 1 ELSE 0
               /\ Cardinality(below) = IF hri \in {"Below", "Both"} THEN 1 ELSE 0
               /\ \A i \in above :
                     adapter_calls'[g].y =
                         adapter_calls'[i].y + ctx.text.line_spacing
               /\ \A i \in below :
                     /\ i = Len(adapter_calls')
                     /\ adapter_calls'[i].y > adapter_calls'[g].y
                     /\ GetY(ctx') = adapter_calls'[i].y + ctx.text.line_spacing
                     /\ GetX(ctx') = GetBaseX(ctx')]_vars

\* A barcode is drawn with the placement Both: text, bars, text.
HriOrderingWitness ==
    /\ lastKind = "Graphics"
    /\ gfx = "Barcode"
    /\ panic = "none"
    /\ ctx.barcode.human_readable = "Both"
    /\ Len(adapter_calls) >= 3
    /\ adapter_calls[Len(adapter_calls)].call = "render_text"
    /\ adapter_calls[Len(adapter_calls) - 1].call = "render_graphics"
    /\ adapter_calls[Len(adapter_calls) - 2].call = "render_text"
    /\ Cardinality(HriCalls(adapter_calls)) = 2

\* The barcode or 2D code of the input, the rectangles handed to
\* render_graphics for it and the context the renderer is left with.
Drawn == fn \in {"process_barcode", "process_code_2d"} /\ res # <<>>

DrawnCode == IF fn = "process_barcode" THEN arg.barcode ELSE arg.code_2d

DrawnRenderer == IF fn = "process_barcode" THEN res[1] ELSE res[1].r

Rectangles == DrawnRenderer.adapter_calls[1].data

\* The number of modules in a row of the code, and of its dark modules.
RowLength ==
    IF fn = "process_barcode" THEN Len(arg.barcode.points)
    ELSE arg.code_2d.width

DarkModules == { k \in DOMAIN DrawnCode.points : DrawnCode.points[k] > 0 }

\* C33: every rectangle drawn for a barcode or a 2D code lies between the
\* base x and the base x plus the render width, in standard mode and in page
\* mode. Modules are dropped, never more rectangles than dark modules, and
\* no bar of a barcode is dropped when the barcode fits; no line is started
\* for a dropped module: the bars of a barcode all share the y the drawing
\* began at and y ends one bar height below it, and the rectangles of a 2D
\* code stay within the rows of its matrix.
ModulesClipped ==
    Drawn =>
       /\ \A n \in DOMAIN Rectangles :
             /\ GetBaseX(arg.ctx) <= Rectangles[n].x
             /\ Rectangles[n].x + Rectangles[n].w
                    <= GetBaseX(arg.ctx) + GetWidth(arg.ctx)
             /\ Rectangles[n].w = DrawnCode.point_width
       /\ Len(Rectangles) <= Cardinality(DarkModules)
       /\ fn = "process_barcode" =>
             /\ RowLength * DrawnCode.point_width <= GetWidth(arg.ctx)
                   => Len(Rectangles) = Cardinality(DarkModules)
             /\ \A n \in DOMAIN Rectangles : Rectangles[n].y = GetY(arg.ctx)
             /\ GetY(DrawnRenderer.ctx)
                    = GetY(arg.ctx) + DrawnCode.point_height
       /\ fn = "process_code_2d" =>
             \A n \in DOMAIN Rectangles :
                /\ GetY(arg.ctx) <= Rectangles[n].y
                /\ Rectangles[n].y <= GetY(DrawnRenderer.ctx)
                /\ GetY(DrawnRenderer.ctx)
                      <= GetY(arg.ctx)
                         + ((Len(DrawnCode.points) - 1) \div RowLength)
                           * DrawnCode.point_height

\* In page mode, with the page area away from x = 0, a 2D code wider than
\* the render area is drawn: some dark modules are drawn and some dropped.
ModulesClippedWitness ==
    /\ Drawn
    /\ fn = "process_code_2d"
    /\ arg.ctx.page_mode.enabled
    /\ GetBaseX(arg.ctx) > 0
    /\ Len(Rectangles) > 0
    /\ Len(Rectangles) < Cardinality(DarkModules)

\* The x the drawing of the 2D code starts at: the justification offset
\* applied with set_x.
Code2DOrigin ==
    GetX(SetX(arg.ctx,
              calculate_justification(arg.ctx,
                  arg.code_2d.width * arg.code_2d.point_width)))

\* C34: every rectangle drawn for a 2D code of matrix width W >= 1 is the
\* one of a dark module at a flattened index k, and it is drawn at
\* x = origin_x + (k mod W) * point_width, y = y0 + (k div W) * point_height,
\* also when other modules are skipped for lack of width.
Code2DGeometry ==
    fn = "process_code_2d" /\ res # <<>> =>
       \A n \in DOMAIN Rectangles :
          /\ arg.code_2d.points[res[1].drawn[n] + 1] > 0
          /\ Rectangles[n].x =
                Code2DOrigin
                + (res[1].drawn[n] % arg.code_2d.width)
                  * arg.code_2d.point_width
          /\ Rectangles[n].y =
                GetY(arg.ctx)
                + (res[1].drawn[n] \div arg.code_2d.width)
                  * arg.code_2d.point_height

\* C35: every line process_text hands to render_text with Right
\* justification is at most as wide as the render area: the offset
\* render_width - line_width is computed without underflow (no abort, no
\* wrapped offset) and offset plus line width is the render width, also for
\* a long word split into pieces, for every render width and character width.
RightOffsetWellDefined ==
    fn = "process_text" /\ res # <<>> =>
       /\ res[1].panic = "none"
       /\ \A i \in DOMAIN res[1].lines :
             res[1].lines[i].justify = "Right" =>
                /\ Len(res[1].lines[i].text) * arg.ctx.text.character_width
                      <= GetWidth(arg.ctx)
                /\ res[1].lines[i].x_offset >= 0
                /\ res[1].lines[i].x_offset
                      + Len(res[1].lines[i].text) * arg.ctx.text.character_width
                   = GetWidth(arg.ctx)

\* The dot i of column j of the column data, as a pixel: bit 7 - i mod 8 of
\* byte i div 8 of the column, 0 when set and 255 when clear.
ColumnDot(i, j) ==
    IF (arg.pixels[j * ((arg.h + 7) \div 8) + (i \div 8) + 1]
           \div (2 ^ (7 - (i % 8)))) % 2 = 1
    THEN 0 ELSE 255

\* How many times a stretch repeats a pixel along an axis.
Doubling(stretch_byte) == IF stretch_byte > 1 THEN 2 ELSE 1

DefinesOf(key) ==
    { n \in DOMAIN trail :
         /\ Len(trail[n]) >= 9
         /\ <<trail[n][2], trail[n][3], "Ram">> = key }

\* The latest of a nonempty set of positions.
Latest(positions) == CHOOSE n \in positions : \A m \in positions : m <= n

\* The keys a payload can name.
ImageRefs == (0..255) \X (0..255) \X {"Ram", "Disc"}

\* C37: after any sequence of define-raster subcommands the stored graphics
\* hold an entry exactly for the keys (kc1, kc2, RAM) defined so far, each the
\* image of the latest well-formed payload for its key (its size from the
\* header, its pixels the bytes after the header) with flow Block, and the
\* rest of the context is as it was; so each define replaces the entry of
\* its key and leaves the other entries alone.
DefineRasterStoresLast ==
    lastOp = "define_raster" /\ panic = "none" =>
       /\ [ctx EXCEPT !.graphics.stored_graphics = <<>>] = NewContext
       /\ \A key \in DOMAIN ctx.graphics.stored_graphics :
             key \in ImageRefs /\ key[3] = "Ram" /\ DefinesOf(key) # {}
       /\ \A n \in DOMAIN trail :
             Len(trail[n]) >= 9 =>
                LET key == <<trail[n][2], trail[n][3], "Ram">>
                    data == trail[Latest(DefinesOf(key))]
                IN /\ key \in DOMAIN ctx.graphics.stored_graphics
                   /\ ctx.graphics.stored_graphics[key].flow = "Block"
                   /\ ctx.graphics.stored_graphics[key].w
                         = data[5] + 256 * data[6]
                   /\ ctx.graphics.stored_graphics[key].h
                         = data[7] + 256 * data[8]
                   /\ ctx.graphics.stored_graphics[key].pixels
                         = SubSeq(data, 10, Len(data))

\* An image is defined, one under another key, and the first is redefined
\* with other pixels.
DefineRasterStoresLastWitness ==
    /\ lastOp = "define_raster"
    /\ panic = "none"
    /\ Len(trail) = 3
    /\ \A n \in 1..3 : Len(trail[n]) >= 9
    /\ trail[1][2] = trail[3][2]
    /\ trail[1][2] # trail[2][2]
    /\ trail[1] # trail[3]
    /\ Cardinality(DOMAIN ctx.graphics.stored_graphics) = 2

\* C38: a define-raster payload of zero to eight bytes is rejected without
\* an abort, and the stored graphics and the rest of the context are left as
\* they were.
ShortDefineRejected ==
    [][lastOp' = "define_raster" /\ Len(trail'[Len(trail')]) <= 8 =>
          panic' = "none" /\ ctx' = ctx]_vars

\* C39: for a raster header with a stretch above 1 on an axis and pixel
\* data of exactly ceil(w / 8) * h bit-packed bytes, the constructor takes
\* every row slice of scale_pixels within the data: it does not abort on a
\* slice that reaches beyond it.
ScaledRasterInBounds ==
    [][/\ fn = "from_raster_data"
       /\ Len(arg) >= 8
       /\ (arg[2] > 1 \/ arg[3] > 1)
       /\ Len(arg) - 8
            = RowBytes(arg[5] + 256 * arg[6]) * (arg[7] + 256 * arg[8])
       => arg'.made # "Panic"]_vars

\* C40: a Renderer that has rendered other streams renders a stream as a
\* fresh Renderer does: the same calls on the adapter, with the same
\* positions and text offsets, the same outputs and the same errors; and
\* after each render call the output and error buffers are empty.
NoCarryOver ==
    [][lastKind' = "render" =>
          /\ \E build \in Builds :
                \E fresh \in { render(NewRenderer,
                                      CommandsOf(trail'[Len(trail')]),
                                      build) } :
                   /\ adapter_calls' = fresh.adapter_calls
                   /\ res' = <<RenderOutput(fresh)>>
          /\ output_buffer' = <<>>
          /\ errors' = <<>>]_vars

====
